---- MODULE Spec2Model ----
(***************************************************************************)
(* Model of the edit pipeline of genai_cli: the SEARCH/REPLACE parser, the *)
(* legacy parser and the dispatcher (applier.py), the file applier         *)
(* (applier.py) and the agent loop (agent.py).                             *)
(*                                                                         *)
(* A text is a sequence of one-character strings.  The alphabet of the     *)
(* model holds "\n" and "\r" as the only line boundaries (str.splitlines   *)
(* also splits on further separators such as form feed, which the      *)
(* model's texts never contain), and " " and "\t" as the other whitespace. *)
(* The backquote character is written "^": a TLA+ string cannot hold a     *)
(* backquote, and the model's texts hold no caret.                         *)
(***************************************************************************)
EXTENDS Integers, Sequences, FiniteSets, TLC

(***************************************************************************)
(* str helpers                                                             *)
(***************************************************************************)
LF == "\n"
CR == "\r"

Min(S) == CHOOSE x \in S : \A y \in S : x <= y
Max(S) == CHOOSE x \in S : \A y \in S : x >= y

\* Python slice s[a:b] with 0 <= a, on 0-based offsets.
Slice(s, a, b) == SubSeq(s, a + 1, IF b > Len(s) THEN Len(s) ELSE b)

RECURSIVE Concat(_)
\* "".join(parts)
Concat(parts) == IF parts = <<>> THEN <<>> ELSE Head(parts) \o Concat(Tail(parts))

\* str.startswith
StartsWith(s, p) == Len(s) >= Len(p) /\ SubSeq(s, 1, Len(p)) = p

\* str.endswith
EndsWith(s, p) == Len(s) >= Len(p) /\ SubSeq(s, Len(s) - Len(p) + 1, Len(s)) = p

\* True iff needle occurs in hay at 0-based offset k.
OccursAt(hay, needle, k) ==
    /\ k >= 0
    /\ k + Len(needle) <= Len(hay)
    /\ SubSeq(hay, k + 1, k + Len(needle)) = needle

\* str.find(needle, from): lowest 0-based offset >= from, or -1.
FindFrom(hay, needle, from) ==
    LET S == {k \in from..(Len(hay) - Len(needle)) : OccursAt(hay, needle, k)}
    IN IF S = {} THEN -1 ELSE Min(S)

\* str.find
Find(hay, needle) == FindFrom(hay, needle, 0)

\* Characters str.strip() / \s treat as whitespace (within the alphabet).
IsSpace(c) == c \in {" ", "\t", LF, CR}

\* Number of leading characters of s that satisfy the set cs.
RECURSIVE LeadIn(_, _)
LeadIn(s, cs) ==
    IF s # <<>> /\ Head(s) \in cs THEN 1 + LeadIn(Tail(s), cs) ELSE 0

\* Number of trailing characters of s that lie in cs.
RECURSIVE TrailIn(_, _)
TrailIn(s, cs) ==
    IF s # <<>> /\ s[Len(s)] \in cs
    THEN 1 + TrailIn(SubSeq(s, 1, Len(s) - 1), cs) ELSE 0

WS == {" ", "\t", LF, CR}

\* str.rstrip(chars)
RStripChars(s, cs) == SubSeq(s, 1, Len(s) - TrailIn(s, cs))

\* str.lstrip(chars)
LStripChars(s, cs) == SubSeq(s, LeadIn(s, cs) + 1, Len(s))

\* str.rstrip("\n\r")
RStripNL(s) == RStripChars(s, {LF, CR})

\* str.rstrip()
RStrip(s) == RStripChars(s, WS)

\* str.lstrip()
LStrip(s) == LStripChars(s, WS)

\* str.strip()
Strip(s) == LStrip(RStrip(s))

\* Length of the first line of s including its terminator ("\n", "\r\n" or
\* "\r"); Len(s) when s holds no line boundary.
FirstLineLen(s) ==
    LET B == {k \in 1..Len(s) : s[k] \in {LF, CR}}
    IN IF B = {} THEN Len(s)
       ELSE LET k == Min(B)
            IN IF s[k] = CR /\ k < Len(s) /\ s[k + 1] = LF THEN k + 1 ELSE k

\* str.splitlines(keepends=True)
RECURSIVE SplitLinesKeep(_)
SplitLinesKeep(s) ==
    IF s = <<>> THEN <<>>
    ELSE LET n == FirstLineLen(s)
         IN <<SubSeq(s, 1, n)>> \o SplitLinesKeep(SubSeq(s, n + 1, Len(s)))

\* str.splitlines()
SplitLines(s) ==
    LET ls == SplitLinesKeep(s)
    IN [k \in 1..Len(ls) |-> RStripNL(ls[k])]

\* "\n".join(parts)
RECURSIVE JoinLF(_)
JoinLF(parts) ==
    IF parts = <<>> THEN <<>>
    ELSE IF Len(parts) = 1 THEN parts[1]
    ELSE parts[1] \o <<LF>> \o JoinLF(Tail(parts))

(***************************************************************************)
(* SearchReplaceParser                                                     *)
(***************************************************************************)
SEARCH_MARKER == <<"<", "<", "<", "<", "<", "<", "<", " ", "S", "E", "A", "R", "C", "H">>
DIVIDER == <<"=", "=", "=", "=", "=", "=", "=">>
REPLACE_MARKER == <<">", ">", ">", ">", ">", ">", ">", " ", "R", "E", "P", "L", "A", "C", "E">>

\* EditBlock(file_path, search_content, replace_content, original_text)
EditBlock(fp, sc, rc, ot) ==
    [file_path |-> fp, search_content |-> sc, replace_content |-> rc,
     original_text |-> ot]

\* EditBlock.is_create
IsCreate(e) == e.search_content = <<>>

\* EditBlock.is_delete
IsDelete(e) == e.replace_content = <<>> /\ e.search_content # <<>>

\* Variant in which the last line of the text stands for a marker that was
\* not found.
FirstMarker_EndAsFound(lines, from, marker) ==
    LET S == {k \in from..(Len(lines) - 1) : RStripNL(lines[k + 1]) = marker}
    IN IF S = {} THEN Len(lines) - 1 ELSE Min(S)

\* 0-based index of the first line at or after from that equals marker
\* once its line terminator is removed; Len(lines) when there is none.
FirstMarker(lines, from, marker) ==
    LET S == {k \in from..(Len(lines) - 1) : RStripNL(lines[k + 1]) = marker}
    IN IF S = {} THEN Len(lines) ELSE Min(S)

\* The condition of the parser's outer if: line i (0-based) is a path line
\* directly followed by the SEARCH marker.
IsPathLine(lines, i) ==
    LET stripped == RStripNL(lines[i + 1])
    IN /\ i + 1 < Len(lines)
       /\ RStripNL(lines[i + 2]) = SEARCH_MARKER
       /\ stripped # <<>>
       /\ ~StartsWith(stripped, <<" ">>)
       /\ ~StartsWith(stripped, <<"\t">>)
       /\ stripped # SEARCH_MARKER
       /\ stripped # DIVIDER
       /\ stripped # REPLACE_MARKER

\* Strip the single trailing "\n" (search_content[:-1] when it ends with "\n").
StripOneLF(s) == IF EndsWith(s, <<LF>>) THEN SubSeq(s, 1, Len(s) - 1) ELSE s

\* The parser's state machine from line index i (0-based) with the blocks
\* collected so far.
RECURSIVE ParseFrom(_, _, _)
ParseFrom(lines, i, blocks) ==
    LET total == Len(lines)
    IN IF i >= total THEN blocks
       ELSE IF IsPathLine(lines, i)
       THEN LET d == FirstMarker(lines, i + 2, DIVIDER)
                e == FirstMarker(lines, d + 1, REPLACE_MARKER)
            IN IF d >= total THEN blocks
               ELSE IF e >= total THEN blocks
               ELSE ParseFrom(lines, e + 1,
                      Append(blocks,
                        EditBlock(Strip(RStripNL(lines[i + 1])),
                                  StripOneLF(Concat(SubSeq(lines, i + 3, d))),
                                  StripOneLF(Concat(SubSeq(lines, d + 2, e))),
                                  Concat(SubSeq(lines, i + 1, e + 1)))))
       ELSE ParseFrom(lines, i + 1, blocks)

\* SearchReplaceParser.parse
SRParse(response) == ParseFrom(SplitLinesKeep(response), 0, <<>>)

(***************************************************************************)
(* ResponseParser (legacy formats)                                         *)
(***************************************************************************)
\* Characters matched by \w (within the alphabet).
WordChars ==
    {"a", "b", "c", "d", "e", "f", "g", "h", "i", "j", "k", "l", "m", "n",
     "o", "p", "q", "r", "s", "t", "u", "v", "w", "x", "y", "z",
     "A", "B", "C", "D", "E", "F", "G", "H", "I", "J", "K", "L", "M", "N",
     "O", "P", "Q", "R", "S", "T", "U", "V", "W", "X", "Y", "Z",
     "0", "1", "2", "3", "4", "5", "6", "7", "8", "9", "_"}

\* The code fence: three backquotes.
FENCE == <<"^", "^", "^">>
FILE_MARKER == <<"F", "I", "L", "E", ":">>

\* CodeBlock(file_path, content, language, is_diff, original_text)
CodeBlock(fp, c, lang, d, ot) ==
    [file_path |-> fp, content |-> c, language |-> lang, is_diff |-> d,
     original_text |-> ot]

\* Character of s at 0-based offset k, "" past the end.
CharAt(s, k) == IF k >= 0 /\ k < Len(s) THEN s[k + 1] ELSE ""

\* Length of the maximal run of non-"\n" characters of s from offset k.
RECURSIVE RunNotLF(_, _)
RunNotLF(s, k) ==
    IF k < Len(s) /\ s[k + 1] # LF THEN 1 + RunNotLF(s, k + 1) ELSE 0

\* Length of the maximal run of characters of cs in s from offset k.
RECURSIVE RunIn(_, _, _)
RunIn(s, k, cs) ==
    IF k < Len(s) /\ s[k + 1] \in cs THEN 1 + RunIn(s, k + 1, cs) ELSE 0

NoMatch == [end |-> -1]

\* _FENCED_PATTERN = FENCE (\w+) : ([^\n]+) \n (.*?) FENCE  (DOTALL) tried at
\* offset p.
FencedAt(s, p) ==
    LET w == RunIn(s, p + 3, WordChars)
        q == p + 3 + w + 1
        m == RunNotLF(s, q)
        r == q + m + 1
        f == FindFrom(s, FENCE, r)
    IN IF /\ OccursAt(s, FENCE, p)
          /\ w >= 1
          /\ CharAt(s, p + 3 + w) = ":"
          /\ m >= 1
          /\ CharAt(s, q + m) = LF
          /\ f # -1
       THEN [end |-> f + 3, start |-> p, g1 |-> Slice(s, p + 3, p + 3 + w),
             g2 |-> Slice(s, q, q + m), g3 |-> Slice(s, r, f)]
       ELSE NoMatch

\* The "---\s+a/([^\n]+)\n" / "\+\+\+\s+b/([^\n]+)\n" header of the diff
\* pattern tried at offset p with the given three-character lead and letter.
DiffHeaderAt(s, p, lead, letter) ==
    LET k == RunIn(s, p + 3, WS)
        q == p + 3 + k + 2
        m == RunNotLF(s, q)
    IN IF /\ OccursAt(s, lead, p)
          /\ k >= 1
          /\ OccursAt(s, <<letter, "/">>, p + 3 + k)
          /\ m >= 1
          /\ CharAt(s, q + m) = LF
       THEN [end |-> q + m + 1, path |-> Slice(s, q, q + m)]
       ELSE NoMatch

\* _DIFF_PATTERN (DOTALL) tried at offset p.  Under DOTALL the .* of the
\* hunk-line group runs to the end of the text.
DiffAt(s, p) ==
    LET h1 == DiffHeaderAt(s, p, <<"-", "-", "-">>, "a")
        h2 == DiffHeaderAt(s, h1.end, <<"+", "+", "+">>, "b")
        a == h2.end
        m == RunNotLF(s, a + 2)
        b == a + 2 + m + 1
        e == IF CharAt(s, b) \in {"+", " ", "-"} THEN Len(s) ELSE b
    IN IF h1.end = -1 THEN NoMatch
       ELSE IF h2.end = -1 THEN NoMatch
       ELSE IF OccursAt(s, <<"@", "@">>, a) /\ CharAt(s, a + 2 + m) = LF
       THEN [end |-> e, start |-> p, g1 |-> Slice(s, p, e),
             g2 |-> h1.path, g3 |-> h2.path]
       ELSE NoMatch

\* The lookahead (?=\nFILE:\s|$) at offset k ($ without MULTILINE: the end of
\* the text, or just before a final "\n").
FileLookahead(s, k) ==
    \/ k = Len(s)
    \/ k = Len(s) - 1 /\ s[Len(s)] = LF
    \/ /\ OccursAt(s, <<LF>> \o FILE_MARKER, k)
       /\ CharAt(s, k + 6) \in WS

\* _FILE_MARKER_PATTERN = FILE:\s*([^\n]+)\n(.*?)(?=\nFILE:\s|$)  (DOTALL)
\* tried at offset p: \s* is greedy and backtracks, (.*?) is lazy.
FileMarkerAt(s, p) ==
    LET K == RunIn(s, p + 5, WS)
        Good == {k \in 0..K :
                   LET q == p + 5 + k
                       m == RunNotLF(s, q)
                   IN m >= 1 /\ CharAt(s, q + m) = LF}
    IN IF OccursAt(s, FILE_MARKER, p) /\ Good # {}
       THEN LET k == Max(Good)
                q == p + 5 + k
                m == RunNotLF(s, q)
                r == q + m + 1
                e == Min({j \in r..Len(s) : FileLookahead(s, j)})
            IN [end |-> e, start |-> p, g1 |-> Slice(s, q, q + m),
                g2 |-> Slice(s, r, e)]
       ELSE NoMatch

\* Pattern.finditer for the three patterns: the leftmost match at or after
\* pos, then on from its end.
RECURSIVE FencedIter(_, _)
FencedIter(s, pos) ==
    LET P == {p \in pos..Len(s) : FencedAt(s, p).end # -1}
    IN IF P = {} THEN <<>>
       ELSE LET mt == FencedAt(s, Min(P)) IN <<mt>> \o FencedIter(s, mt.end)

RECURSIVE DiffIter(_, _)
DiffIter(s, pos) ==
    LET P == {p \in pos..Len(s) : DiffAt(s, p).end # -1}
    IN IF P = {} THEN <<>>
       ELSE LET mt == DiffAt(s, Min(P)) IN <<mt>> \o DiffIter(s, mt.end)

RECURSIVE FileMarkerIter(_, _)
FileMarkerIter(s, pos) ==
    LET P == {p \in pos..Len(s) : FileMarkerAt(s, p).end # -1}
    IN IF P = {} THEN <<>>
       ELSE LET mt == FileMarkerAt(s, Min(P))
            IN <<mt>> \o FileMarkerIter(s, mt.end)

\* Paths of the blocks collected so far (seen_paths).
SeenPaths(blocks) == {blocks[k].file_path : k \in 1..Len(blocks)}

\* Pattern 1 loop: fenced code blocks with a file path.
RECURSIVE AddFenced(_, _, _)
AddFenced(s, ms, blocks) ==
    IF ms = <<>> THEN blocks
    ELSE LET mt == Head(ms)
             path == Strip(mt.g2)
         IN AddFenced(s, Tail(ms),
               IF path # <<>> /\ path \notin SeenPaths(blocks)
               THEN Append(blocks, CodeBlock(path, mt.g3, mt.g1, FALSE,
                                             Slice(s, mt.start, mt.end)))
               ELSE blocks)

\* Pattern 2 loop: unified diffs.
RECURSIVE AddDiffs(_, _, _)
AddDiffs(s, ms, blocks) ==
    IF ms = <<>> THEN blocks
    ELSE LET mt == Head(ms)
             to_path == Strip(mt.g3)
             path == IF to_path # <<>> THEN to_path ELSE Strip(mt.g2)
         IN AddDiffs(s, Tail(ms),
               IF path # <<>> /\ path \notin SeenPaths(blocks)
               THEN Append(blocks, CodeBlock(path, mt.g1, <<>>, TRUE,
                                             Slice(s, mt.start, mt.end)))
               ELSE blocks)

\* Variant of the pattern 3 loop that does not look at the paths seen.
RECURSIVE AddFileMarkers_NoDedup(_, _, _)
AddFileMarkers_NoDedup(s, ms, blocks) ==
    IF ms = <<>> THEN blocks
    ELSE LET mt == Head(ms)
             path == Strip(mt.g1)
             content == Strip(mt.g2)
         IN AddFileMarkers_NoDedup(s, Tail(ms),
               IF path # <<>> /\ content # <<>>
               THEN Append(blocks, CodeBlock(path, content, <<>>, FALSE,
                                             Slice(s, mt.start, mt.end)))
               ELSE blocks)

\* Pattern 3 loop: FILE: markers.
RECURSIVE AddFileMarkers(_, _, _)
AddFileMarkers(s, ms, blocks) ==
    IF ms = <<>> THEN blocks
    ELSE LET mt == Head(ms)
             path == Strip(mt.g1)
             content == Strip(mt.g2)
         IN AddFileMarkers(s, Tail(ms),
               IF path # <<>> /\ path \notin SeenPaths(blocks) /\ content # <<>>
               THEN Append(blocks, CodeBlock(path, content, <<>>, FALSE,
                                             Slice(s, mt.start, mt.end)))
               ELSE blocks)

\* ResponseParser.parse
LegacyParse(response) ==
    AddFileMarkers(response, FileMarkerIter(response, 0),
      AddDiffs(response, DiffIter(response, 0),
        AddFenced(response, FencedIter(response, 0), <<>>)))

(***************************************************************************)
(* UnifiedParser                                                           *)
(***************************************************************************)
\* Variant of UnifiedParser.parse that always runs the legacy parser too.
UnifiedParse_Both(response) ==
    [edits |-> SRParse(response), legacy |-> LegacyParse(response)]

\* UnifiedParser.parse: (edit_blocks, legacy_blocks)
UnifiedParse(response) ==
    LET edits == SRParse(response)
    IN IF edits # <<>> THEN [edits |-> edits, legacy |-> <<>>]
       ELSE [edits |-> <<>>, legacy |-> LegacyParse(response)]

(***************************************************************************)
(* Paths and the file tree                                                 *)
(*                                                                         *)
(* A resolved path is the text "/c1/c2/...".  The tree holds no symbolic   *)
(* links.  fs.files maps the path of every regular file to its bytes and   *)
(* fs.dirs is the set of directories.                                      *)
(***************************************************************************)
\* FileApplier._project_root (Path.cwd() for the applier of an AgentLoop)
PROJECT_ROOT == <<"/", "r">>

\* settings.blocked_write_patterns as the applier tests configure it
BlockedWritePatterns ==
    << <<"*", "*", "/", ".", "e", "n", "v">>,
       <<"*", "*", "/", "*", ".", "p", "e", "m">>,
       <<"*", "*", "/", "*", ".", "k", "e", "y">>,
       <<"*", "*", "/", "*", ".", "s", "e", "c", "r", "e", "t", "*">> >>

\* settings.create_backups
CreateBackups == TRUE

\* str.split(c)
RECURSIVE SplitOn(_, _)
SplitOn(s, c) ==
    LET B == {k \in 1..Len(s) : s[k] = c}
    IN IF B = {} THEN <<s>>
       ELSE <<SubSeq(s, 1, Min(B) - 1)>> \o SplitOn(SubSeq(s, Min(B) + 1, Len(s)), c)

\* The name components of a path text: pathlib drops empty and "." parts.
Components(p) ==
    SelectSeq(SplitOn(p, "/"), LAMBDA c : c # <<>> /\ c # <<".">>)

\* The text of the absolute path with the given components.
RECURSIVE PathText(_)
PathText(cs) ==
    IF cs = <<>> THEN <<>> ELSE <<"/">> \o Head(cs) \o PathText(Tail(cs))

PathOf(cs) == IF cs = <<>> THEN <<"/">> ELSE PathText(cs)

\* Path.resolve on a tree without symbolic links: a ".." component removes
\* the component before it, and is dropped at the root.
RECURSIVE Collapse(_, _)
Collapse(cs, acc) ==
    IF cs = <<>> THEN acc
    ELSE IF Head(cs) = <<".", ".">>
    THEN Collapse(Tail(cs), IF acc = <<>> THEN acc ELSE SubSeq(acc, 1, Len(acc) - 1))
    ELSE Collapse(Tail(cs), Append(acc, Head(cs)))

\* (self._project_root / file_path).resolve()
Resolve(file_path) ==
    IF StartsWith(file_path, <<"/">>)
    THEN PathOf(Collapse(Components(file_path), <<>>))
    ELSE PathOf(Collapse(Components(PROJECT_ROOT) \o Components(file_path), <<>>))

\* resolved.relative_to(root) does not raise
IsRelativeTo(p, root) ==
    LET pc == Components(p)
        rc == Components(root)
    IN Len(pc) >= Len(rc) /\ SubSeq(pc, 1, Len(rc)) = rc

\* Path.name
Name(p) == LET cs == Components(p) IN IF cs = <<>> THEN <<>> ELSE cs[Len(cs)]

\* Path.parent
Parent(p) ==
    LET cs == Components(p)
    IN IF cs = <<>> THEN <<"/">> ELSE PathOf(SubSeq(cs, 1, Len(cs) - 1))

\* The directories from "/" down to p, p included.
Ancestors(p) ==
    LET cs == Components(p) IN {PathOf(SubSeq(cs, 1, k)) : k \in 0..Len(cs)}

\* fnmatch.fnmatch(name, pat) for patterns of literals, "*" and "?"; a run
\* of "*" matches what a single "*" matches.
RECURSIVE FnMatch(_, _)
FnMatch(name, pat) ==
    IF pat = <<>> THEN name = <<>>
    ELSE IF Head(pat) = "*" /\ Tail(pat) # <<>> /\ Head(Tail(pat)) = "*"
    THEN FnMatch(name, Tail(pat))
    ELSE IF Head(pat) = "*"
    THEN \E k \in 0..Len(name) : FnMatch(SubSeq(name, k + 1, Len(name)), Tail(pat))
    ELSE /\ name # <<>>
         /\ Head(pat) = "?" \/ Head(pat) = Head(name)
         /\ FnMatch(Tail(name), Tail(pat))

\* pattern.split("/")[-1]
LastSegment(pat) == LET ps == SplitOn(pat, "/") IN ps[Len(ps)]

\* The blocked-pattern loop of validate_path.
Blocked(resolved) ==
    \E k \in 1..Len(BlockedWritePatterns) :
        \/ FnMatch(resolved, BlockedWritePatterns[k])
        \/ FnMatch(Name(resolved), LastSegment(BlockedWritePatterns[k]))

\* The value validate_path returns for a rejected path.
None == <<>>

\* Variant of validate_path that judges the resolved path only.
ValidatePath_ResolvedOnly(file_path) ==
    IF ~IsRelativeTo(Resolve(file_path), PROJECT_ROOT) THEN None
    ELSE IF Blocked(Resolve(file_path)) THEN None
    ELSE Resolve(file_path)

\* FileApplier.validate_path: the resolved path, or None.
ValidatePath(file_path) ==
    IF Find(file_path, <<".", ".">>) # -1 THEN None
    ELSE IF ~IsRelativeTo(Resolve(file_path), PROJECT_ROOT) THEN None
    ELSE IF Blocked(Resolve(file_path)) THEN None
    ELSE Resolve(file_path)

\* Path.is_file
IsFile(fs, p) == p \in DOMAIN fs.files

\* Path.is_dir
IsDir(fs, p) == p \in fs.dirs

\* Path.read_text: universal newlines turn "\r\n" and "\r" into "\n".
RECURSIVE Universal(_)
Universal(b) ==
    IF b = <<>> THEN <<>>
    ELSE IF Head(b) = CR
    THEN <<LF>> \o Universal(IF Len(b) >= 2 /\ b[2] = LF
                             THEN SubSeq(b, 3, Len(b)) ELSE Tail(b))
    ELSE <<Head(b)>> \o Universal(Tail(b))

ReadText(fs, p) == Universal(fs.files[p])

\* A function f extended or overwritten at the argument a.
Put(f, a, v) == [y \in DOMAIN f \cup {a} |-> IF y = a THEN v ELSE f[y]]

\* The result of an operation on the tree: the tree after it and whether it
\* raised OSError.
Done(fs) == [fs |-> fs, raised |-> FALSE]
Raised(fs) == [fs |-> fs, raised |-> TRUE]

\* path.mkdir(parents=True, exist_ok=True): raises when p or one of its
\* ancestors is a regular file.
Mkdir(fs, p) ==
    IF \E a \in Ancestors(p) : IsFile(fs, a) THEN Raised(fs)
    ELSE Done([fs EXCEPT !.dirs = @ \cup Ancestors(p)])

\* Path.write_text: raises when p is a directory or its parent is not one.
WriteText(fs, p, text) ==
    IF IsDir(fs, p) \/ ~IsDir(fs, Parent(p)) THEN Raised(fs)
    ELSE Done([fs EXCEPT !.files = Put(@, p, text)])

\* Variant of _create_backup that keeps a backup that is already there.
CreateBackup_KeepFirst(fs, p) ==
    LET backup == p \o <<".", "b", "a", "k">>
        dst == IF IsDir(fs, backup) THEN backup \o <<"/">> \o Name(p) ELSE backup
    IN IF ~IsFile(fs, p) THEN Done(fs)
       ELSE IF IsDir(fs, dst) THEN Raised(fs)
       ELSE IF IsFile(fs, dst) THEN Done(fs)
       ELSE Done([fs EXCEPT !.files = Put(@, dst, fs.files[p])])

\* FileApplier._create_backup: shutil.copy2 to path.suffix + ".bak"; a
\* destination that is a directory receives the copy under the source name.
CreateBackup(fs, p) ==
    LET backup == p \o <<".", "b", "a", "k">>
        dst == IF IsDir(fs, backup) THEN backup \o <<"/">> \o Name(p) ELSE backup
    IN IF ~IsFile(fs, p) THEN Done(fs)
       ELSE IF IsDir(fs, dst) THEN Raised(fs)
       ELSE Done([fs EXCEPT !.files = Put(@, dst, fs.files[p])])

(***************************************************************************)
(* FileApplier: SEARCH/REPLACE application                                 *)
(***************************************************************************)
\* ApplyResult(file_path, success, error_message, file_content_snippet).
\* The fixed fragments of a message are kept as single elements of its text.
ApplyResult(fp, ok, msg, snippet) ==
    [file_path |-> fp, success |-> ok, error_message |-> msg,
     file_content_snippet |-> snippet]

\* Default of _truncate_content's max_lines
MAX_SNIPPET_LINES == 200

\* _truncate_content
TruncateContent(content) ==
    LET lines == SplitLines(content)
        half == MAX_SNIPPET_LINES \div 2
        omitted == Len(lines) - MAX_SNIPPET_LINES
    IN IF Len(lines) <= MAX_SNIPPET_LINES THEN content
       ELSE JoinLF(SubSeq(lines, 1, half)
                   \o << <<"... (", ToString(omitted), " lines omitted) ...">> >>
                   \o SubSeq(lines, Len(lines) - half + 1, Len(lines)))

\* _normalize_trailing_ws
NormalizeTrailingWs(text) ==
    LET ls == SplitLines(text) IN JoinLF([k \in 1..Len(ls) |-> RStrip(ls[k])])

\* _normalize_indent
NormalizeIndent(text) ==
    LET ls == SplitLines(text) IN JoinLF([k \in 1..Len(ls) |-> LStrip(ls[k])])

\* sum(len(l) for l in lines[:n])
RECURSIVE SumLen(_, _)
SumLen(lines, n) ==
    IF n <= 0 \/ lines = <<>> THEN 0
    ELSE Len(Head(lines)) + SumLen(Tail(lines), n - 1)

\* The start_line loop: the first line whose end lies beyond offset idx,
\* 0 when the loop ends without a break.
StartLine(lines, idx) ==
    LET S == {li \in 0..(Len(lines) - 1) : SumLen(lines, li + 1) > idx}
    IN IF S = {} THEN 0 ELSE Min(S)

\* Variant of the offset mapping whose span covers at least one line.
MapBack_AtLeastOneLine(file_content, norm_file, norm_search, idx) ==
    LET Span(file_lines, start_line) ==
            [found |-> TRUE,
             start |-> SumLen(file_lines, start_line),
             end |-> SumLen(file_lines,
                            start_line + Max({1, Len(SplitLines(norm_search))}))]
    IN Span(SplitLinesKeep(file_content),
            StartLine(SplitLinesKeep(norm_file), idx))

\* The offset mapping of tiers 2 and 3: the span of whole original lines
\* that starts at the line of the normalized match.
MapBack(file_content, norm_file, norm_search, idx) ==
    LET Span(file_lines, start_line) ==
            [found |-> TRUE,
             start |-> SumLen(file_lines, start_line),
             end |-> SumLen(file_lines, start_line + Len(SplitLines(norm_search)))]
    IN Span(SplitLinesKeep(file_content),
            StartLine(SplitLinesKeep(norm_file), idx))

\* Variant in which a search text that is not in the file matches the empty
\* span at the end of the file.
FindSearchContent_AppendWhenMissing(file_content, search_content) ==
    LET Exact(idx) ==
            IF idx # -1
            THEN [found |-> TRUE, start |-> idx, end |-> idx + Len(search_content)]
            ELSE [found |-> TRUE, start |-> Len(file_content),
                  end |-> Len(file_content)]
    IN Exact(Find(file_content, search_content))

\* Variant that tries the trailing-whitespace tier before the exact tier.
FindSearchContent_NormalizedFirst(file_content, search_content) ==
    LET NotFound == [found |-> FALSE, start |-> 0, end |-> 0]
        Exact(idx) ==
            IF idx # -1
            THEN [found |-> TRUE, start |-> idx, end |-> idx + Len(search_content)]
            ELSE NotFound
        Mapped(norm_file, norm_search, idx) ==
            IF idx # -1 THEN MapBack(file_content, norm_file, norm_search, idx)
            ELSE NotFound
        Normalized(norm_file, norm_search) ==
            Mapped(norm_file, norm_search, Find(norm_file, norm_search))
        OrElse(first, second) == IF first.found THEN first ELSE second
    IN OrElse(Normalized(NormalizeTrailingWs(file_content),
                         NormalizeTrailingWs(search_content)),
              OrElse(Exact(Find(file_content, search_content)),
                     Normalized(NormalizeIndent(file_content),
                                NormalizeIndent(search_content))))

\* FileApplier._find_search_content: (start, end), or found = FALSE for None.
FindSearchContent(file_content, search_content) ==
    LET NotFound == [found |-> FALSE, start |-> 0, end |-> 0]
        \* Tier 1: exact match
        Exact(idx) ==
            IF idx # -1
            THEN [found |-> TRUE, start |-> idx, end |-> idx + Len(search_content)]
            ELSE NotFound
        \* Tiers 2 and 3: match of the normalized texts, mapped back
        Mapped(norm_file, norm_search, idx) ==
            IF idx # -1 THEN MapBack(file_content, norm_file, norm_search, idx)
            ELSE NotFound
        Normalized(norm_file, norm_search) ==
            Mapped(norm_file, norm_search, Find(norm_file, norm_search))
        OrElse(first, second) == IF first.found THEN first ELSE second
    IN OrElse(Exact(Find(file_content, search_content)),
              OrElse(Normalized(NormalizeTrailingWs(file_content),
                                NormalizeTrailingWs(search_content)),
                     Normalized(NormalizeIndent(file_content),
                                NormalizeIndent(search_content))))

\* The outcome of one apply: the tree, whether OSError escaped, the result.
Outcome(fs, raised, result) == [fs |-> fs, raised |-> raised, result |-> result]

\* Variant of the CREATE branch that writes without making the parent
\* directories.
ApplyCreate_NoParents(fs, path, edit, mode, answer) ==
    LET fp == edit.file_path
        NotApplied(tree, raised) == Outcome(tree, raised, ApplyResult(fp, FALSE, <<>>, <<>>))
        Written(written) ==
            IF written.raised THEN NotApplied(fs, TRUE)
            ELSE Outcome(written.fs, FALSE, ApplyResult(fp, TRUE, <<>>, <<>>))
    IN IF mode = "dry-run" THEN NotApplied(fs, FALSE)
       ELSE IF mode = "confirm" /\ ~answer THEN NotApplied(fs, FALSE)
       ELSE Written(WriteText(fs, path, edit.replace_content))

\* The CREATE branch of _apply_search_replace (empty SEARCH).
ApplyCreate(fs, path, edit, mode, answer) ==
    LET fp == edit.file_path
        NotApplied(tree, raised) == Outcome(tree, raised, ApplyResult(fp, FALSE, <<>>, <<>>))
        Written(made, written) ==
            IF written.raised THEN NotApplied(made.fs, TRUE)
            ELSE Outcome(written.fs, FALSE, ApplyResult(fp, TRUE, <<>>, <<>>))
        Made(made) ==
            IF made.raised THEN NotApplied(fs, TRUE)
            ELSE Written(made, WriteText(made.fs, path, edit.replace_content))
    IN IF mode = "dry-run" THEN NotApplied(fs, FALSE)
       ELSE IF mode = "confirm" /\ ~answer THEN NotApplied(fs, FALSE)
       ELSE Made(Mkdir(fs, Parent(path)))

\* Variant of the EDIT / DELETE branch that reports a previewed or declined
\* edit with the message apply_all gives a block that was not applied.
ApplyEdit_PreviewReported(read, fs, path, edit, mode, answer) ==
    LET fp == edit.file_path
        NotApplied(tree, raised) ==
            Outcome(tree, raised, ApplyResult(fp, FALSE, <<>>, <<>>))
        Withheld(tree) ==
            Outcome(tree, FALSE,
                    ApplyResult(fp, FALSE, <<"Failed to apply: ">> \o fp, <<>>))
        Written(backed, written) ==
            IF written.raised THEN NotApplied(backed.fs, TRUE)
            ELSE Outcome(written.fs, FALSE, ApplyResult(fp, TRUE, <<>>, <<>>))
        Backed(backed, new_content) ==
            IF backed.raised THEN NotApplied(fs, TRUE)
            ELSE Written(backed, WriteText(backed.fs, path, new_content))
        Matched(file_content, match) ==
            IF ~match.found
            THEN Outcome(fs, FALSE,
                         ApplyResult(fp, FALSE,
                                     <<"SEARCH block not found in ">> \o fp
                                       \o <<". The content does not match the file.">>,
                                     TruncateContent(file_content)))
            ELSE IF mode = "dry-run" THEN Withheld(fs)
            ELSE IF mode = "confirm" /\ ~answer THEN Withheld(fs)
            ELSE Backed(IF CreateBackups THEN CreateBackup(fs, path) ELSE Done(fs),
                        Slice(file_content, 0, match.start) \o edit.replace_content
                          \o Slice(file_content, match.end, Len(file_content)))
        Read(file_content) ==
            Matched(file_content, FindSearchContent(file_content, edit.search_content))
    IN IF ~IsFile(read, path)
       THEN Outcome(fs, FALSE,
                    ApplyResult(fp, FALSE, <<"File not found: ">> \o fp, <<>>))
       ELSE Read(ReadText(read, path))

\* Variant of the EDIT / DELETE branch that makes the backup as soon as the
\* file is read, before the search.
ApplyEdit_BackupFirst(read, fs, path, edit, mode, answer) ==
    LET fp == edit.file_path
        NotApplied(tree, raised) == Outcome(tree, raised, ApplyResult(fp, FALSE, <<>>, <<>>))
        Written(backed, written) ==
            IF written.raised THEN NotApplied(backed.fs, TRUE)
            ELSE Outcome(written.fs, FALSE, ApplyResult(fp, TRUE, <<>>, <<>>))
        Matched(backed, file_content, match) ==
            IF backed.raised THEN NotApplied(fs, TRUE)
            ELSE IF ~match.found
            THEN Outcome(backed.fs, FALSE,
                         ApplyResult(fp, FALSE,
                                     <<"SEARCH block not found in ">> \o fp
                                       \o <<". The content does not match the file.">>,
                                     TruncateContent(file_content)))
            ELSE IF mode = "dry-run" THEN NotApplied(backed.fs, FALSE)
            ELSE IF mode = "confirm" /\ ~answer THEN NotApplied(backed.fs, FALSE)
            ELSE Written(backed,
                         WriteText(backed.fs, path,
                                   Slice(file_content, 0, match.start)
                                     \o edit.replace_content
                                     \o Slice(file_content, match.end, Len(file_content))))
        Read(file_content) ==
            Matched(CreateBackup(fs, path), file_content,
                    FindSearchContent(file_content, edit.search_content))
    IN IF ~IsFile(read, path)
       THEN Outcome(fs, FALSE,
                    ApplyResult(fp, FALSE, <<"File not found: ">> \o fp, <<>>))
       ELSE Read(ReadText(read, path))

\* The EDIT / DELETE branch of _apply_search_replace.  read is the tree as
\* lines 445-452 found it (is_file, read_text); fs is the tree the backup
\* and the write of lines 482-485 act on, which is read unless something ran
\* while display.confirm waited in between.
ApplyEdit(read, fs, path, edit, mode, answer) ==
    LET fp == edit.file_path
        NotApplied(tree, raised) == Outcome(tree, raised, ApplyResult(fp, FALSE, <<>>, <<>>))
        Written(backed, written) ==
            IF written.raised THEN NotApplied(backed.fs, TRUE)
            ELSE Outcome(written.fs, FALSE, ApplyResult(fp, TRUE, <<>>, <<>>))
        Backed(backed, new_content) ==
            IF backed.raised THEN NotApplied(fs, TRUE)
            ELSE Written(backed, WriteText(backed.fs, path, new_content))
        Matched(file_content, match) ==
            IF ~match.found
            THEN Outcome(fs, FALSE,
                         ApplyResult(fp, FALSE,
                                     <<"SEARCH block not found in ">> \o fp
                                       \o <<". The content does not match the file.">>,
                                     TruncateContent(file_content)))
            ELSE IF mode = "dry-run" THEN NotApplied(fs, FALSE)
            ELSE IF mode = "confirm" /\ ~answer THEN NotApplied(fs, FALSE)
            ELSE Backed(IF CreateBackups THEN CreateBackup(fs, path) ELSE Done(fs),
                        Slice(file_content, 0, match.start) \o edit.replace_content
                          \o Slice(file_content, match.end, Len(file_content)))
        Read(file_content) ==
            Matched(file_content, FindSearchContent(file_content, edit.search_content))
    IN IF ~IsFile(read, path)
       THEN Outcome(fs, FALSE,
                    ApplyResult(fp, FALSE, <<"File not found: ">> \o fp, <<>>))
       ELSE Read(ReadText(read, path))

\* FileApplier._apply_search_replace; answer is what display.confirm returns.
\* The CREATE branch reads nothing before it asks.
ApplySearchReplace(read, fs, path, edit, mode, answer) ==
    IF IsCreate(edit) THEN ApplyCreate(fs, path, edit, mode, answer)
    ELSE ApplyEdit(read, fs, path, edit, mode, answer)

\* The outcome of a batch: the tree, whether OSError escaped, the results.
Batch(fs, raised, results) == [fs |-> fs, raised |-> raised, results |-> results]

\* The loop of apply_edits from edit k on; answers[k] is the answer the user
\* gives if edit k reaches display.confirm.  read is the tree as the pass on
\* edit k read it, fs the tree as it is when the pass writes; the passes
\* after it read the tree the pass before them left.
RECURSIVE ApplyEditsFrom(_, _, _, _, _, _, _)
ApplyEditsFrom(read, fs, edits, k, mode, answers, results) ==
    IF k > Len(edits) THEN Batch(fs, FALSE, results)
    ELSE LET edit == edits[k]
             Applied(o) ==
                 IF o.raised THEN Batch(o.fs, TRUE, results)
                 ELSE ApplyEditsFrom(o.fs, o.fs, edits, k + 1, mode, answers,
                                     Append(results, o.result))
             Validated(validated) ==
                 IF validated = None
                 THEN ApplyEditsFrom(fs, fs, edits, k + 1, mode, answers,
                        Append(results,
                               ApplyResult(edit.file_path, FALSE,
                                           <<"Path validation failed: ">>
                                             \o edit.file_path,
                                           <<>>)))
                 ELSE Applied(ApplySearchReplace(read, fs, validated, edit, mode,
                                                 answers[k]))
         IN Validated(ValidatePath(edit.file_path))

\* FileApplier.apply_edits
ApplyEdits(fs, edits, mode, answers) ==
    ApplyEditsFrom(fs, fs, edits, 1, mode, answers, <<>>)

\* True iff the pass on the item, in confirm mode, gets to display.confirm:
\* the path passes validation and, for an edit or delete, the file is there
\* and the search text is found in it (applier.py 434-436, 445-478); a
\* creation and a legacy block ask unconditionally (594-603, 628-635).
ReachesConfirm(read, kind, item) ==
    LET path == ValidatePath(item.file_path)
    IN /\ path # None
       /\ (kind = "edits" /\ ~IsCreate(item)) =>
             /\ IsFile(read, path)
             /\ FindSearchContent(ReadText(read, path), item.search_content).found

\* True iff the pass on the item waits for _check_git_dirty's subprocess
\* before it goes on (applier.py 508, 574): the path passes validation and
\* is a file.
ChecksGit(fs, item) ==
    LET path == ValidatePath(item.file_path)
    IN path # None /\ IsFile(fs, path)

(***************************************************************************)
(* FileApplier: legacy code block application                              *)
(***************************************************************************)
Digits == {"0", "1", "2", "3", "4", "5", "6", "7", "8", "9"}

DigitVal(c) ==
    CASE c = "0" -> 0 [] c = "1" -> 1 [] c = "2" -> 2 [] c = "3" -> 3
      [] c = "4" -> 4 [] c = "5" -> 5 [] c = "6" -> 6 [] c = "7" -> 7
      [] c = "8" -> 8 [] c = "9" -> 9

\* int(digits)
RECURSIVE ToInt(_)
ToInt(ds) ==
    IF ds = <<>> THEN 0 ELSE 10 * ToInt(SubSeq(ds, 1, Len(ds) - 1)) + DigitVal(ds[Len(ds)])

HUNK_PREFIX == <<"@", "@", " ", "-">>

\* list.insert(i, v) on a 0-based index, with Python's clamping.
ListInsert(l, i, v) ==
    LET j == IF i < 0 THEN (IF i + Len(l) < 0 THEN 0 ELSE i + Len(l))
             ELSE IF i > Len(l) THEN Len(l) ELSE i
    IN SubSeq(l, 1, j) \o <<v>> \o SubSeq(l, j + 1, Len(l))

\* list.pop(i) for 0 <= i < len(l)
ListPop(l, i) == SubSeq(l, 1, i) \o SubSeq(l, i + 2, Len(l))

\* The loop of _simple_patch over the remaining diff lines.
RECURSIVE PatchFrom(_, _, _, _)
PatchFrom(result, diff_lines, idx, offset) ==
    IF diff_lines = <<>> THEN result
    ELSE LET dline == Head(diff_lines)
             rest == Tail(diff_lines)
             nd == RunIn(dline, 4, Digits)
         IN IF StartsWith(dline, <<"@", "@">>)
            THEN IF StartsWith(dline, HUNK_PREFIX) /\ nd >= 1
                 THEN PatchFrom(result, rest,
                                ToInt(Slice(dline, 4, 4 + nd)) - 1 + offset, offset)
                 ELSE PatchFrom(result, rest, idx, offset)
            ELSE IF StartsWith(dline, <<"-">>) /\ ~StartsWith(dline, <<"-", "-", "-">>)
            THEN IF 0 <= idx /\ idx < Len(result)
                 THEN PatchFrom(ListPop(result, idx), rest, idx, offset - 1)
                 ELSE PatchFrom(result, rest, idx, offset)
            ELSE IF StartsWith(dline, <<"+">>) /\ ~StartsWith(dline, <<"+", "+", "+">>)
            THEN PatchFrom(ListInsert(result, idx, Tail(dline) \o <<LF>>), rest,
                           idx + 1, offset + 1)
            ELSE IF ~StartsWith(dline, <<"-", "-", "-">>)
                    /\ ~StartsWith(dline, <<"+", "+", "+">>)
            THEN PatchFrom(result, rest, idx + 1, offset)
            ELSE PatchFrom(result, rest, idx, offset)

\* FileApplier._simple_patch
SimplePatch(original_lines, diff_content) ==
    PatchFrom(original_lines, SplitLines(diff_content), 0, 0)

\* The outcome of applying one legacy block: the tree, whether OSError
\* escaped, and the bool the method returns.
BlockOutcome(fs, raised, ok) == [fs |-> fs, raised |-> raised, ok |-> ok]

\* FileApplier._apply_diff (a failing write is caught and reported as False)
ApplyDiff(fs, path, diff_content) ==
    LET Written(written) ==
            IF written.raised THEN BlockOutcome(fs, FALSE, FALSE)
            ELSE BlockOutcome(written.fs, FALSE, TRUE)
        Patched(patched) == Written(WriteText(fs, path, Concat(patched)))
    IN IF ~IsFile(fs, path) THEN BlockOutcome(fs, FALSE, FALSE)
       ELSE Patched(SimplePatch(SplitLinesKeep(ReadText(fs, path)), diff_content))

\* Variant of _apply_diff_block that makes the backup before it looks at
\* the mode.
ApplyDiffBlock_BackupFirst(fs, path, block, mode, answer) ==
    LET Backed(backed) ==
            IF backed.raised THEN BlockOutcome(fs, TRUE, FALSE)
            ELSE IF mode = "dry-run" THEN BlockOutcome(backed.fs, FALSE, FALSE)
            ELSE IF mode = "confirm" /\ ~answer THEN BlockOutcome(backed.fs, FALSE, FALSE)
            ELSE ApplyDiff(backed.fs, path, block.content)
    IN Backed(IF CreateBackups THEN CreateBackup(fs, path) ELSE Done(fs))

\* FileApplier._apply_diff_block
ApplyDiffBlock(fs, path, block, mode, answer) ==
    LET Backed(backed) ==
            IF backed.raised THEN BlockOutcome(fs, TRUE, FALSE)
            ELSE ApplyDiff(backed.fs, path, block.content)
    IN IF mode = "dry-run" THEN BlockOutcome(fs, FALSE, FALSE)
       ELSE IF mode = "confirm" /\ ~answer THEN BlockOutcome(fs, FALSE, FALSE)
       ELSE Backed(IF CreateBackups THEN CreateBackup(fs, path) ELSE Done(fs))

\* FileApplier._apply_full_block
ApplyFullBlock(fs, path, block, mode, answer) ==
    LET Written(made, written) ==
            IF written.raised THEN BlockOutcome(made.fs, TRUE, FALSE)
            ELSE BlockOutcome(written.fs, FALSE, TRUE)
        Made(backed, made) ==
            IF made.raised THEN BlockOutcome(backed.fs, TRUE, FALSE)
            ELSE Written(made, WriteText(made.fs, path, block.content))
        Backed(backed) ==
            IF backed.raised THEN BlockOutcome(fs, TRUE, FALSE)
            ELSE Made(backed, Mkdir(backed.fs, Parent(path)))
    IN IF mode = "dry-run" THEN BlockOutcome(fs, FALSE, FALSE)
       ELSE IF mode = "confirm" /\ ~answer THEN BlockOutcome(fs, FALSE, FALSE)
       ELSE Backed(IF IsFile(fs, path) /\ CreateBackups
                   THEN CreateBackup(fs, path) ELSE Done(fs))

\* FileApplier.apply_block
ApplyBlock(fs, block, mode, answer) ==
    LET Validated(validated) ==
            IF validated = None THEN BlockOutcome(fs, FALSE, FALSE)
            ELSE IF block.is_diff
            THEN ApplyDiffBlock(fs, validated, block, mode, answer)
            ELSE ApplyFullBlock(fs, validated, block, mode, answer)
    IN Validated(ValidatePath(block.file_path))

\* The loop of apply_all from block k on.
RECURSIVE ApplyAllFrom(_, _, _, _, _, _)
ApplyAllFrom(fs, blocks, k, mode, answers, results) ==
    IF k > Len(blocks) THEN Batch(fs, FALSE, results)
    ELSE LET block == blocks[k]
             Applied(o) ==
                 IF o.raised THEN Batch(o.fs, TRUE, results)
                 ELSE ApplyAllFrom(o.fs, blocks, k + 1, mode, answers,
                        Append(results,
                               ApplyResult(block.file_path, o.ok,
                                           IF o.ok THEN <<>>
                                           ELSE <<"Failed to apply: ">>
                                                  \o block.file_path,
                                           <<>>)))
         IN Applied(ApplyBlock(fs, block, mode, answers[k]))

\* FileApplier.apply_all
ApplyAll(fs, blocks, mode, answers) ==
    ApplyAllFrom(fs, blocks, 1, mode, answers, <<>>)

(***************************************************************************)
(* TokenTracker                                                            *)
(***************************************************************************)
\* TokenTracker._context_window after __init__ (ModelInfo.context_window
\* default)
CONTEXT_WINDOW == 128000

\* The context windows of the models switch_model may select.
ModelWindows == {128000, 200000}

\* The value None of a field the final chunk did not carry.
NoneValue == -2

\* settings.token_warning_threshold and token_critical_threshold, in percent
TOKEN_WARNING_PCT == 80
TOKEN_CRITICAL_PCT == 95

\* TokenTracker.status for _consumed = c and _context_window = w:
\* usage_ratio is 0.0 for an empty window.
TrackerStatus(c, w) ==
    IF w # 0 /\ c * 100 >= TOKEN_CRITICAL_PCT * w
    THEN "critical"
    ELSE IF w # 0 /\ c * 100 >= TOKEN_WARNING_PCT * w
    THEN "warning"
    ELSE "normal"

\* TokenTracker.add_consumed: the counter is increased, then the cost; an
\* addition of None raises TypeError and leaves what was added before it.
AddConsumed(c, tokens, cost) ==
    IF tokens = NoneValue THEN [consumed |-> c, raised |-> TRUE]
    ELSE IF cost = NoneValue THEN [consumed |-> c + tokens, raised |-> TRUE]
    ELSE [consumed |-> c + tokens, raised |-> FALSE]

\* TokenTracker.subtract_consumed
SubtractConsumed(c, tokens) == IF c - tokens > 0 THEN c - tokens ELSE 0

(***************************************************************************)
(* AgentLoop                                                               *)
(***************************************************************************)
\* RoundResult(round_number=n)
RoundResult(n) ==
    [round_number |-> n, response |-> <<>>, files_applied |-> <<>>,
     failed_edits |-> <<>>, tokens_consumed |-> 0, had_actions |-> FALSE]

\* AgentResult()
AgentResult ==
    [rounds |-> <<>>, total_files_applied |-> <<>>, total_tokens |-> 0,
     total_failed_edits |-> 0, stop_reason |-> ""]

\* AgentLoop._get_apply_mode
GetApplyMode(dr, aa) == IF dr THEN "dry-run" ELSE IF aa THEN "auto" ELSE "confirm"

\* Variant of _should_stop_tokens that stops only on a full window.
ShouldStopTokens_Full(c, w) == c >= w

\* AgentLoop._should_stop_tokens
ShouldStopTokens(c, w) == TrackerStatus(c, w) = "critical"

\* The outcomes of stream_or_complete: AuthError raised; every other
\* transport failure swallowed and ("", None) returned; a reply with its
\* text and the ChatMessage's tokens_consumed and token_cost (tokens is NoMsg
\* when chat_msg is None, a field is NoneValue when the final chunk lacked
\* it).
NoMsg == -1
AuthFailure == [kind |-> "auth_error", text |-> <<>>, tokens |-> NoMsg, cost |-> 0]
TransportFailure == [kind |-> "error", text |-> <<>>, tokens |-> NoMsg, cost |-> 0]
Reply(text, tokens, cost) ==
    [kind |-> "reply", text |-> text, tokens |-> tokens, cost |-> cost]

\* [r.file_path for r in results if r.success]
FilesApplied(results) ==
    LET ok == SelectSeq(results, LAMBDA r : r.success)
    IN [k \in 1..Len(ok) |-> ok[k].file_path]

\* [r for r in results if not r.success]
FailedEdits(results) == SelectSeq(results, LAMBDA r : ~r.success)

\* _run_round while its batch is being applied: the reply, its tokens, the
\* kind of batch (edits for apply_edits, blocks for apply_all), the items,
\* the outcomes of the items done so far and, while display.confirm waits,
\* the tree as the pass read it (in a one-element sequence).
NoRound ==
    [response |-> <<>>, tokens |-> 0, ikind |-> "none", items |-> <<>>,
     results |-> <<>>, read |-> <<>>]

\* One pass of the loop of apply_edits (kind edits) or apply_all on item k,
\* from the tree as the pass read it, and the tree as it is now with the
\* outcomes the passes before it left.
LoopPass(kind, read, prev, items, k, mode, answer) ==
    IF kind = "edits"
    THEN ApplyEditsFrom(read, prev.fs, SubSeq(items, 1, k), k, mode, k :> answer,
                        prev.results)
    ELSE ApplyAllFrom(prev.fs, SubSeq(items, 1, k), k, mode, k :> answer,
                      prev.results)

\* The RoundResult _run_round returns for round n once the batch is done.
RoundOutcome(n, r, results) ==
    [round_number |-> n,
     response |-> r.response,
     files_applied |-> FilesApplied(results),
     failed_edits |-> FailedEdits(results),
     tokens_consumed |-> r.tokens,
     had_actions |-> r.items # <<>>]

\* The accumulation of run() after a round (agent.py lines 127-130).
Accumulate(res, rr) ==
    [res EXCEPT !.rounds = Append(@, rr),
                !.total_tokens = @ + rr.tokens_consumed,
                !.total_files_applied = @ \o rr.files_applied,
                !.total_failed_edits = @ + Len(rr.failed_edits)]

\* Variant of the stop checks that tests the round budget first.
StopAfterRound_RoundsFirst(rr, n, mr) ==
    IF n >= mr THEN "max_rounds"
    ELSE IF ~rr.had_actions THEN "no_actions"
    ELSE ""

\* Variant of the stop checks with the budget test off by one.
StopAfterRound_OffByOne(rr, n, mr) ==
    IF ~rr.had_actions THEN "no_actions"
    ELSE IF n > mr THEN "max_rounds"
    ELSE ""

\* Variant of the stop checks that lets a round whose call failed go on to
\* the next round.
StopAfterRound_RetryFailed(rr, n, mr) ==
    IF ~rr.had_actions /\ rr.response # <<>> THEN "no_actions"
    ELSE IF n >= mr THEN "max_rounds"
    ELSE ""

\* The stop checks of run() after a round: the stop reason, "" to go on.
StopAfterRound(rr, n, mr) ==
    IF ~rr.had_actions THEN "no_actions"
    ELSE IF n >= mr THEN "max_rounds"
    ELSE ""

\* sep.join(parts)
RECURSIVE Join(_, _)
Join(parts, sep) ==
    IF parts = <<>> THEN <<>>
    ELSE IF Len(parts) = 1 THEN parts[1]
    ELSE parts[1] \o sep \o Join(Tail(parts), sep)

\* The fixed sentences of _build_feedback_message.
RETRY_SENTENCE ==
    <<"Please retry the failed edits with corrected SEARCH content that exactly matches the current file content shown above.">>
NEXT_STEPS_SENTENCE == <<"Continue with next steps.">>
REMAINING_SENTENCE == <<"Continue with any remaining tasks.">>

\* The paragraphs _build_feedback_message makes for one failed outcome.
FailedParts(f) ==
    << <<"FAILED to apply edit to ">> \o f.file_path \o <<": ">> \o f.error_message >>
    \o IF f.file_content_snippet # <<>>
       THEN << <<"Current content of ">> \o f.file_path \o <<":", LF>> \o FENCE
               \o <<LF>> \o f.file_content_snippet \o <<LF>> \o FENCE >>
       ELSE <<>>

\* The paragraphs of all failed outcomes, in order.
RECURSIVE AllFailedParts(_)
AllFailedParts(failed) ==
    IF failed = <<>> THEN <<>>
    ELSE FailedParts(Head(failed)) \o AllFailedParts(Tail(failed))

\* Variant of the parts list that reports the first failed outcome only.
FeedbackParts_FirstFailureOnly(rr) ==
    LET applied == rr.files_applied
        failed == rr.failed_edits
    IN (IF applied # <<>>
        THEN << <<"Successfully applied changes to: ">>
                \o Join(applied, <<",", " ">>) \o <<".">> >>
        ELSE <<>>)
       \o (IF failed # <<>>
           THEN FailedParts(Head(failed)) \o <<RETRY_SENTENCE>>
           ELSE <<>>)
       \o (IF applied = <<>> /\ failed = <<>> THEN <<NEXT_STEPS_SENTENCE>> ELSE <<>>)
       \o (IF applied # <<>> /\ failed = <<>> THEN <<REMAINING_SENTENCE>> ELSE <<>>)

\* The parts list of _build_feedback_message for a round.
FeedbackParts(rr) ==
    LET applied == rr.files_applied
        failed == rr.failed_edits
    IN (IF applied # <<>>
        THEN << <<"Successfully applied changes to: ">>
                \o Join(applied, <<",", " ">>) \o <<".">> >>
        ELSE <<>>)
       \o (IF failed # <<>>
           THEN AllFailedParts(failed) \o <<RETRY_SENTENCE>>
           ELSE <<>>)
       \o (IF applied = <<>> /\ failed = <<>> THEN <<NEXT_STEPS_SENTENCE>> ELSE <<>>)
       \o (IF applied # <<>> /\ failed = <<>> THEN <<REMAINING_SENTENCE>> ELSE <<>>)

\* AgentLoop._build_feedback_message
BuildFeedbackMessage(rr) == Join(FeedbackParts(rr), <<LF, LF>>)

\* AgentLoop._build_full_prompt
BuildFullPrompt(user_message, system_prompt, skill_prompt) ==
    Join((IF system_prompt # <<>> THEN <<system_prompt>> ELSE <<>>)
           \o (IF skill_prompt # <<>> THEN <<skill_prompt>> ELSE <<>>)
           \o <<user_message>>,
         <<LF, LF>>)

\* Variant of the checks at the top of the loop body that does not look at
\* the flag.
StopBeforeRound_IgnoreFlag(st, c, w) ==
    IF ShouldStopTokens(c, w) THEN "token_limit"
    ELSE ""

\* The stop checks of run() at the top of the loop body: the stop reason,
\* "" to run the round.
StopBeforeRound(st, c, w) ==
    IF st THEN "user_cancelled"
    ELSE IF ShouldStopTokens(c, w) THEN "token_limit"
    ELSE ""

(***************************************************************************)
(* Inputs of the model                                                     *)
(***************************************************************************)
\* Bounds
MaxRounds == 2
MaxRuns == 2
MaxSegments == 2

\* Lines of the model's texts.
T_A == <<"a", ".", "p", "y">>
T_B == <<"b", ".", "p", "y">>
T_C == <<"c", ".", "p", "y">>
T_DOT == <<".">>
T_OK == <<"o", "k">>
T_X == <<"x">>
T_Y == <<"y">>
T_Q == <<"q">>
T_FENCED == FENCE \o <<"p", "y", ":">> \o T_C

\* The text whose lines are ls, each ended by the terminator nl.
RECURSIVE Text(_, _)
Text(ls, nl) == IF ls = <<>> THEN <<>> ELSE Head(ls) \o nl \o Text(Tail(ls), nl)

\* A primary-protocol block as text.
BlockText(path, search, replace, nl) ==
    Text(<<path, SEARCH_MARKER>> \o search \o <<DIVIDER>> \o replace
         \o <<REPLACE_MARKER>>, nl)

\* A fenced legacy block for c.py.
LegacyText == Text(<<T_FENCED, T_Y, FENCE>>, <<LF>>)

\* The message run() is called with.
USER_MESSAGE == <<"g", "o">>

\* The replies the model client may return in a round.
Replies ==
    { Text(<<T_OK>>, <<LF>>),
      BlockText(T_B, <<>>, <<T_Y>>, <<LF>>),
      BlockText(T_A, <<T_X>>, <<T_X, T_Y>>, <<LF>>)
        \o BlockText(T_A, <<T_X>>, <<T_X>>, <<LF>>),
      BlockText(T_A, <<T_Q>>, <<T_Y>>, <<LF>>),
      LegacyText,
      BlockText(T_B, <<>>, <<T_X>>, <<LF>>) \o LegacyText,
      BlockText(T_DOT, <<>>, <<T_X>>, <<LF>>) }

\* tokens_consumed and token_cost of the ChatMessage of a reply: no
\* ChatMessage, both fields present, TokensConsumed missing, TokenCost
\* missing.
TokenChoices ==
    {<<NoMsg, 0>>, <<122000, 0>>, <<NoneValue, 0>>, <<122000, NoneValue>>}

\* The amounts the host adds to or takes from the tracker between runs.
HostTokens == {125000}

\* The host adds tokens only up to this count.
MaxConsumed == 125000

\* The tree before the run: a.py in the project root.
InitialFs ==
    [files |-> (PathOf(<<<<"r">>, T_A>>) :> Text(<<T_X>>, <<LF>>)),
     dirs |-> {<<"/">>, PROJECT_ROOT}]

(***************************************************************************)
(* State                                                                   *)
(***************************************************************************)
VARIABLES
    max_rounds,        \* AgentLoop._max_rounds
    streaming,         \* settings.streaming of the orchestrator's config
    dry_run,           \* AgentLoop._dry_run
    auto_apply,        \* AgentLoop._auto_apply
    stopped,           \* AgentLoop._stopped
    consumed,          \* TokenTracker._consumed
    context_window,    \* TokenTracker._context_window
    in_round,          \* _run_round while it applies its batch
    fs,                \* the file tree
    pc,                \* where run() stands: idle, loop, call, apply, git, confirm, done, raised
    round_num,         \* round_num of the for loop
    result,            \* the AgentResult of run()
    calls,             \* outcomes of the model-client calls made, in order
    attempt,           \* client calls made by the stream_or_complete in progress
    stopped_at_start,  \* _stopped as run() found it on entry
    current_message,   \* current_message of run()
    sent,              \* the messages run() has passed to the model client, in order
    sent_round,        \* the round_num each message of sent was passed in
    stopped_in,        \* pc, round_num and Len(sent) when stop() set the flag
    runs,              \* number of run() calls started
    token_checks,      \* what _should_stop_tokens returned in this run, in order
    passes,            \* the passes of the apply loops of this run that appended an outcome
    doc,               \* parser input: the segments the reply is made of
    reply,             \* parser input: the reply text
    sr,                \* output of SearchReplaceParser.parse
    parsed,            \* output of UnifiedParser.parse
    pstate,            \* build or parsed
    batch,             \* applier input: the instructions or blocks of a batch
    bkind,             \* none, edits (apply_edits) or blocks (apply_all)
    applies,           \* the calls of the batch that have returned, in order
    applying           \* the call of the batch in progress, if any

hvars == <<current_message, sent, sent_round, stopped_in, runs, token_checks,
           passes>>
avars == <<max_rounds, streaming, dry_run, auto_apply, stopped, consumed,
           context_window, in_round, fs, pc, round_num, result, calls, attempt,
           stopped_at_start, hvars>>
pvars == <<doc, reply, sr, parsed, pstate>>
xvars == <<batch, bkind, applies, applying>>
vars == <<avars, pvars, xvars>>

\* The state of the parser inputs before anything is added.
PInit ==
    /\ doc = <<>>
    /\ reply = <<>>
    /\ sr = <<>>
    /\ parsed = [edits |-> <<>>, legacy |-> <<>>]
    /\ pstate = "build"

\* No run() and no stop() yet.
HInit ==
    /\ current_message = <<>>
    /\ sent = <<>>
    /\ sent_round = <<>>
    /\ stopped_in = <<"", 0, 0>>
    /\ runs = 0
    /\ token_checks = <<>>
    /\ passes = <<>>

\* The state after AgentLoop.__init__ for one configuration.
AInit ==
    /\ max_rounds \in 0..MaxRounds
    /\ streaming \in BOOLEAN
    /\ dry_run \in BOOLEAN
    /\ auto_apply \in BOOLEAN
    /\ stopped = FALSE
    /\ consumed = 0
    /\ context_window = CONTEXT_WINDOW
    /\ in_round = NoRound
    /\ fs = InitialFs
    /\ pc = "idle"
    /\ round_num = 0
    /\ result = AgentResult
    /\ calls = <<>>
    /\ attempt = 0
    /\ stopped_at_start = FALSE
    /\ HInit

\* The state of the applier inputs before anything is added.
XInit ==
    /\ batch = <<>>
    /\ bkind = "none"
    /\ applies = <<>>
    /\ applying = <<>>

Init == AInit /\ PInit /\ XInit

(***************************************************************************)
(* AgentLoop.run and AgentLoop.stop                                        *)
(***************************************************************************)
\* AgentLoop.stop
Stop ==
    /\ pc \in {"idle", "loop", "call", "apply", "git", "confirm", "done", "raised"}
    /\ ~stopped
    /\ stopped' = TRUE
    /\ stopped_in' = <<pc, round_num, Len(sent)>>
    /\ UNCHANGED <<max_rounds, streaming, dry_run, auto_apply, consumed,
                   context_window, in_round, fs, pc, round_num, result, calls,
                   attempt, stopped_at_start, current_message, sent, sent_round,
                   runs, passes, token_checks, pvars, xvars>>

\* run() up to the for loop (files=None): a fresh AgentResult, the full
\* prompt as the first message.
RunEntry ==
    /\ runs' = runs + 1
    /\ pc' = "loop"
    /\ round_num' = 1
    /\ result' = AgentResult
    /\ stopped_at_start' = stopped
    /\ current_message' = BuildFullPrompt(USER_MESSAGE, <<>>, <<>>)
    /\ sent' = <<>>
    /\ sent_round' = <<>>
    /\ calls' = <<>>
    /\ token_checks' = <<>>
    /\ passes' = <<>>
    /\ UNCHANGED <<max_rounds, streaming, dry_run, auto_apply, stopped, consumed,
                   context_window, in_round, fs, attempt, stopped_in, pvars,
                   xvars>>

\* The first run() of the orchestrator.
RunStart == pc = "idle" /\ RunEntry

\* run() is called again after an earlier run() of the same orchestrator has
\* returned or raised.  Further runs are followed for the orchestrators
\* whose flag is set, up to MaxRuns runs.
RunAgain == pc \in {"done", "raised"} /\ stopped /\ runs < MaxRuns /\ RunEntry

\* The for loop is exhausted without a break: run() returns the result.
LoopExhausted ==
    /\ pc = "loop"
    /\ round_num > max_rounds
    /\ pc' = "done"
    /\ UNCHANGED <<max_rounds, streaming, dry_run, auto_apply, stopped, consumed,
                   context_window, in_round, fs, round_num, result, calls,
                   attempt, stopped_at_start, hvars, pvars, xvars>>

\* The checks at the top of the loop body stop the run; the tracker is
\* asked only when the flag is not set.
LoopStop ==
    /\ pc = "loop"
    /\ round_num <= max_rounds
    /\ StopBeforeRound(stopped, consumed, context_window) # ""
    /\ result' = [result EXCEPT
                    !.stop_reason = StopBeforeRound(stopped, consumed, context_window)]
    /\ pc' = "done"
    /\ token_checks' = IF stopped THEN token_checks ELSE Append(token_checks, TRUE)
    /\ UNCHANGED <<max_rounds, streaming, dry_run, auto_apply, stopped, consumed,
                   context_window, in_round, fs, round_num, calls, attempt,
                   stopped_at_start, current_message, sent, sent_round,
                   stopped_in, runs, passes, pvars, xvars>>

\* Variant of the round's call that sends the full prompt in every round.
RoundCall_SendsPrompt ==
    /\ pc = "loop"
    /\ round_num <= max_rounds
    /\ StopBeforeRound(stopped, consumed, context_window) = ""
    /\ pc' = "call"
    /\ attempt' = 1
    /\ sent' = Append(sent, BuildFullPrompt(USER_MESSAGE, <<>>, <<>>))
    /\ sent_round' = Append(sent_round, round_num)
    /\ token_checks' = Append(token_checks, FALSE)
    /\ UNCHANGED <<max_rounds, streaming, dry_run, auto_apply, stopped, consumed,
                   context_window, in_round, fs,
                   round_num, result, calls, stopped_at_start, current_message,
                   stopped_in, runs, passes, pvars, xvars>>

\* The checks pass: _run_round passes the message to stream_or_complete,
\* which blocks in its first client call.
RoundCall ==
    /\ pc = "loop"
    /\ round_num <= max_rounds
    /\ StopBeforeRound(stopped, consumed, context_window) = ""
    /\ pc' = "call"
    /\ attempt' = 1
    /\ sent' = Append(sent, current_message)
    /\ sent_round' = Append(sent_round, round_num)
    /\ token_checks' = Append(token_checks, FALSE)
    /\ UNCHANGED <<max_rounds, streaming, dry_run, auto_apply, stopped, consumed,
                   context_window, in_round, fs,
                   round_num, result, calls, stopped_at_start, current_message,
                   stopped_in, runs, passes, pvars, xvars>>

\* The end of the loop body for the round result rr: it is accumulated, and
\* the run ends or goes on to the next round with the feedback message.
RoundEnd(rr) ==
    LET Checked(acc, why) ==
            IF why # ""
            THEN /\ pc' = "done"
                 /\ result' = [acc EXCEPT !.stop_reason = why]
                 /\ UNCHANGED <<round_num, current_message>>
            ELSE /\ pc' = "loop"
                 /\ result' = acc
                 /\ current_message' = BuildFeedbackMessage(rr)
                 /\ round_num' = round_num + 1
    IN /\ in_round' = NoRound
       /\ Checked(Accumulate(result, rr), StopAfterRound(rr, round_num, max_rounds))

\* stream_or_complete returns or raises with the outcome call of its last
\* client call.  AuthError ends the round with
\* an empty result.  Otherwise the tokens of the ChatMessage are added to
\* the tracker, where a None field raises TypeError out of run(), and the
\* reply is parsed: without instructions or blocks the round ends, with
\* them _run_round goes on to apply the batch.
RoundReceive(call) ==
    LET Parsed(p) ==
            LET r == [response |-> call.text,
                      tokens |-> IF call.tokens = NoMsg THEN 0 ELSE call.tokens,
                      ikind |-> IF p.edits # <<>> THEN "edits" ELSE "blocks",
                      items |-> IF p.edits # <<>> THEN p.edits ELSE p.legacy,
                      results |-> <<>>,
                      read |-> <<>>]
            IN IF r.items = <<>>
               THEN RoundEnd(RoundOutcome(round_num, r, <<>>))
               ELSE /\ pc' = "apply"
                    /\ in_round' = r
                    /\ UNCHANGED <<result, round_num, current_message>>
        Counted(t) ==
            /\ consumed' = t.consumed
            /\ IF t.raised
               THEN /\ pc' = "raised"
                    /\ UNCHANGED <<in_round, result, round_num, current_message>>
               ELSE Parsed(UnifiedParse(call.text))
    IN /\ pc = "call"
       /\ calls' = Append(calls, call.kind)
       /\ attempt' = 0
       /\ IF call.kind = "auth_error"
          THEN /\ RoundEnd(RoundResult(round_num))
               /\ UNCHANGED consumed
          ELSE IF call.tokens = NoMsg
          THEN Counted([consumed |-> consumed, raised |-> FALSE])
          ELSE Counted(AddConsumed(consumed, call.tokens, call.cost))
       /\ UNCHANGED <<max_rounds, streaming, dry_run, auto_apply, stopped,
                      context_window, fs, stopped_at_start, sent, sent_round,
                      stopped_in, runs, passes, token_checks, pvars, xvars>>

RoundReplies ==
    \E text \in Replies, t \in TokenChoices : RoundReceive(Reply(text, t[1], t[2]))

RoundAuthError == RoundReceive(AuthFailure)

\* stream_or_complete with streaming on: the first client call fails with
\* something other than AuthError; the failure is dropped and the client is
\* called a second time with the same message.
RoundFallback ==
    /\ pc = "call"
    /\ streaming
    /\ attempt = 1
    /\ calls' = Append(calls, TransportFailure.kind)
    /\ attempt' = 2
    /\ sent' = Append(sent, sent[Len(sent)])
    /\ sent_round' = Append(sent_round, round_num)
    /\ UNCHANGED <<max_rounds, streaming, dry_run, auto_apply, stopped, consumed,
                   context_window, in_round, fs, pc, round_num, result,
                   stopped_at_start, current_message, stopped_in, runs, passes,
                   token_checks, pvars, xvars>>

\* The last client call of stream_or_complete fails with something other
\* than AuthError (the only call with streaming off, the second with
\* streaming on): it returns the empty text and no ChatMessage.
RoundTransportError ==
    /\ ~streaming \/ attempt = 2
    /\ RoundReceive(TransportFailure)

\* The rest of the pass on the next item of the batch, from the point where
\* nothing more is waited for: read is the tree as the pass read it, answer
\* what display.confirm returned when the pass asked (prompted).  OSError
\* leaves run(); otherwise the outcome is appended, noted in passes with
\* its round, its item, what validate_path returned for it, the tree the
\* pass read and the answer, and after the last item the round ends.
RoundPass(read, prompted, answer) ==
    LET k == Len(in_round.results) + 1
        Passed(o) ==
            /\ fs' = o.fs
            /\ IF o.raised
               THEN /\ pc' = "raised"
                    /\ in_round' = NoRound
                    /\ UNCHANGED <<result, round_num, current_message, passes>>
               ELSE /\ passes' = Append(passes,
                                        [round |-> round_num,
                                         kind |-> in_round.ikind,
                                         item |-> in_round.items[k],
                                         path |-> ValidatePath(
                                                    in_round.items[k].file_path),
                                         before |-> read,
                                         prompted |-> prompted,
                                         answer |-> answer,
                                         out |-> o.results[k]])
                    /\ IF k = Len(in_round.items)
                       THEN RoundEnd(RoundOutcome(round_num, in_round, o.results))
                       ELSE /\ pc' = "apply"
                            /\ in_round' = [in_round EXCEPT !.results = o.results,
                                                            !.read = <<>>]
                            /\ UNCHANGED <<result, round_num, current_message>>
    IN Passed(LoopPass(in_round.ikind, read, Batch(fs, FALSE, in_round.results),
                       in_round.items, k, GetApplyMode(dry_run, auto_apply),
                       answer))

\* The pass from the point where the git check is over (or was not made):
\* in confirm mode an item that gets to display.confirm waits in input()
\* with what it has read; every other pass runs to its end.
RoundRead ==
    LET k == Len(in_round.results) + 1
    IN IF /\ GetApplyMode(dry_run, auto_apply) = "confirm"
          /\ ReachesConfirm(fs, in_round.ikind, in_round.items[k])
       THEN /\ pc' = "confirm"
            /\ in_round' = [in_round EXCEPT !.read = <<fs>>]
            /\ UNCHANGED <<fs, result, round_num, current_message, passes>>
       ELSE RoundPass(fs, FALSE, TRUE)

\* The next pass of the loop of apply_edits / apply_all inside _run_round
\* begins: the path is validated, and for a path that is a file the pass
\* waits for the subprocess of _check_git_dirty.
RoundApply ==
    /\ pc = "apply"
    /\ IF ChecksGit(fs, in_round.items[Len(in_round.results) + 1])
       THEN /\ pc' = "git"
            /\ UNCHANGED <<in_round, fs, result, round_num, current_message,
                           passes>>
       ELSE RoundRead
    /\ UNCHANGED <<max_rounds, streaming, dry_run, auto_apply, stopped, consumed,
                   context_window, calls, attempt, stopped_at_start, sent,
                   sent_round, stopped_in, runs, token_checks, pvars, xvars>>

\* The subprocess of _check_git_dirty is over (its answer only prints a
\* warning) and the pass goes on.
RoundGit ==
    /\ pc = "git"
    /\ RoundRead
    /\ UNCHANGED <<max_rounds, streaming, dry_run, auto_apply, stopped, consumed,
                   context_window, calls, attempt, stopped_at_start, sent,
                   sent_round, stopped_in, runs, token_checks, pvars, xvars>>

\* The user answers the prompt display.confirm waits at, and the pass goes
\* on: the backup and the write act on the tree as it is now, with the new
\* content made from what was read before the prompt.
RoundAnswer ==
    /\ pc = "confirm"
    /\ \E answer \in BOOLEAN : RoundPass(in_round.read[1], TRUE, answer)
    /\ UNCHANGED <<max_rounds, streaming, dry_run, auto_apply, stopped, consumed,
                   context_window, calls, attempt, stopped_at_start, sent,
                   sent_round, stopped_in, runs, token_checks, pvars, xvars>>

\* The host resets the tracker outside a run (TokenTracker.reset).
TrackerReset ==
    /\ pc \in {"idle", "done", "raised"}
    /\ consumed # 0
    /\ consumed' = 0
    /\ UNCHANGED <<max_rounds, streaming, dry_run, auto_apply, stopped, context_window,
                   in_round, fs, pc, round_num, result, calls, attempt,
                   stopped_at_start, hvars, pvars, xvars>>

\* The host counts tokens of its own outside a run (TokenTracker.add_consumed).
TrackerAdd ==
    /\ pc \in {"idle", "done", "raised"}
    /\ \E t \in HostTokens :
          /\ consumed + t <= MaxConsumed
          /\ consumed' = AddConsumed(consumed, t, 0).consumed
    /\ UNCHANGED <<max_rounds, streaming, dry_run, auto_apply, stopped, context_window,
                   in_round, fs, pc, round_num, result, calls, attempt,
                   stopped_at_start, hvars, pvars, xvars>>

\* The host takes tokens back outside a run (TokenTracker.subtract_consumed).
TrackerSubtract ==
    /\ pc \in {"idle", "done", "raised"}
    /\ consumed # 0
    /\ \E t \in HostTokens : consumed' = SubtractConsumed(consumed, t)
    /\ UNCHANGED <<max_rounds, streaming, dry_run, auto_apply, stopped, context_window,
                   in_round, fs, pc, round_num, result, calls, attempt,
                   stopped_at_start, hvars, pvars, xvars>>

\* The host switches the model outside a run (TokenTracker.switch_model).
SwitchModel ==
    /\ pc \in {"idle", "done", "raised"}
    /\ \E w \in ModelWindows \ {context_window} : context_window' = w
    /\ UNCHANGED <<max_rounds, streaming, dry_run, auto_apply, stopped, consumed,
                   in_round, fs, pc, round_num, result, calls, attempt,
                   stopped_at_start, hvars, pvars, xvars>>

Next ==
    \/ Stop
    \/ RunStart
    \/ RunAgain
    \/ LoopExhausted
    \/ LoopStop
    \/ RoundCall
    \/ RoundReplies
    \/ RoundAuthError
    \/ RoundFallback
    \/ RoundTransportError
    \/ RoundApply
    \/ RoundGit
    \/ RoundAnswer
    \/ TrackerReset
    \/ TrackerAdd
    \/ TrackerSubtract
    \/ SwitchModel

Spec == Init /\ [][Next]_vars

(***************************************************************************)
(* The parsers on constructed replies                                      *)
(***************************************************************************)
CRLF == <<CR, LF>>

\* Choices for the segments of a constructed reply.
BlockPaths == {T_A, T_B}
SearchChoices == {<<>>, <<T_X>>, <<T_X, T_Y>>}
ReplaceChoices == {<<>>, <<T_Y>>}
Terminators == {<<LF>>, CRLF}
ProseChoices == {Text(<<T_OK>>, <<LF>>), <<LF>>, LegacyText}
RawChoices == {Text(<<SEARCH_MARKER>>, <<LF>>),
               Text(<<T_A, SEARCH_MARKER, T_X>>, <<LF>>)}

\* A well-formed primary-protocol block is added to the reply.
AddBlock ==
    /\ pstate = "build"
    /\ Len(doc) < MaxSegments
    /\ \E path \in BlockPaths, search \in SearchChoices,
          replace \in ReplaceChoices, nl \in Terminators :
          /\ doc' = Append(doc, [kind |-> "block", path |-> path,
                                 search |-> search, replace |-> replace, nl |-> nl])
          /\ reply' = reply \o BlockText(path, search, replace, nl)
    /\ UNCHANGED <<sr, parsed, pstate, avars, xvars>>

\* Ordinary text (prose, an empty line, a legacy fenced block) is added.
AddProse ==
    /\ pstate = "build"
    /\ Len(doc) < MaxSegments
    /\ \E text \in ProseChoices :
          /\ doc' = Append(doc, [kind |-> "prose", text |-> text])
          /\ reply' = reply \o text
    /\ UNCHANGED <<sr, parsed, pstate, avars, xvars>>

\* Marker lines outside a well-formed block are added.
AddRaw ==
    /\ pstate = "build"
    /\ Len(doc) < MaxSegments
    /\ \E text \in RawChoices :
          /\ doc' = Append(doc, [kind |-> "raw", text |-> text])
          /\ reply' = reply \o text
    /\ UNCHANGED <<sr, parsed, pstate, avars, xvars>>

\* Blocks that lack the divider, the end marker, or both.
OpenChoices ==
    { Text(<<T_A, SEARCH_MARKER, T_X, REPLACE_MARKER>>, <<LF>>),
      Text(<<T_A, SEARCH_MARKER, T_X, DIVIDER, T_Y>>, <<LF>>),
      Text(<<T_A, SEARCH_MARKER, T_X>>, <<LF>>) }

\* A block that lacks its divider or its end marker is added.
AddOpen ==
    /\ pstate = "build"
    /\ Len(doc) < MaxSegments
    /\ \E text \in OpenChoices :
          /\ doc' = Append(doc, [kind |-> "open", text |-> text])
          /\ reply' = reply \o text
    /\ UNCHANGED <<sr, parsed, pstate, avars, xvars>>

\* The line before the fence of a wrapped block: a path in inline code
\* markers, or ordinary words (path <<>>).
WrappedChoices ==
    { [path |-> T_A, line |-> <<"^">> \o T_A \o <<"^">>],
      [path |-> <<>>, line |-> T_OK \o <<" ">> \o T_OK] }

\* A creation block wrapped in a code fence is added, the line before the
\* fence being the path line or ordinary words.
AddWrapped ==
    /\ pstate = "build"
    /\ Len(doc) < MaxSegments
    /\ \E w \in WrappedChoices :
          LET text == Text(<<w.line, FENCE \o <<"p", "y">>, SEARCH_MARKER, DIVIDER,
                             T_Y, REPLACE_MARKER, FENCE>>, <<LF>>)
          IN /\ doc' = Append(doc, [kind |-> "wrapped", path |-> w.path,
                                    text |-> text])
             /\ reply' = reply \o text
    /\ UNCHANGED <<sr, parsed, pstate, avars, xvars>>

\* Legacy-format segments: fenced blocks for c.py with two contents, a
\* unified diff and a FILE: marker for c.py, a FILE: marker for b.py, and
\* fenced blocks whose path part is the bare word "md" or has a slash.
LegacyChoices ==
    LET Fenced(path, content) ==
            Text(<<FENCE \o <<"p", "y", ":">> \o path, content, FENCE>>, <<LF>>)
        Marker(path, content) == Text(<<FILE_MARKER \o <<" ">> \o path, content>>, <<LF>>)
        Diff(path) ==
            Text(<<<<"-", "-", "-", " ", "a", "/">> \o path,
                   <<"+", "+", "+", " ", "b", "/">> \o path,
                   <<"@", "@", " ", "-", "1">>, <<"+">> \o T_X>>, <<LF>>)
    IN { [format |-> "fenced", path |-> T_C, text |-> Fenced(T_C, T_X)],
         [format |-> "fenced", path |-> T_C, text |-> Fenced(T_C, T_Q)],
         [format |-> "diff", path |-> T_C, text |-> Diff(T_C)],
         [format |-> "file", path |-> T_C, text |-> Marker(T_C, T_Q)],
         [format |-> "file", path |-> T_B, text |-> Marker(T_B, T_Y)],
         [format |-> "fenced", path |-> <<"m", "d">>, text |-> Fenced(<<"m", "d">>, T_X)],
         [format |-> "fenced", path |-> <<"s", "/", "u">>,
          text |-> Fenced(<<"s", "/", "u">>, T_X)] }

\* A block in one of the legacy formats is added to the reply.
AddLegacy ==
    /\ pstate = "build"
    /\ Len(doc) < MaxSegments
    /\ \E c \in LegacyChoices :
          /\ doc' = Append(doc, [kind |-> "legacy", format |-> c.format,
                                 path |-> c.path, text |-> c.text])
          /\ reply' = reply \o c.text
    /\ UNCHANGED <<sr, parsed, pstate, avars, xvars>>

\* The reply is parsed by the primary parser and by the dispatcher.
DoParse ==
    /\ pstate = "build"
    /\ sr' = SRParse(reply)
    /\ parsed' = UnifiedParse(reply)
    /\ pstate' = "parsed"
    /\ UNCHANGED <<doc, reply, avars, xvars>>

\* The agent's state while only the parsers run.
AIdle ==
    /\ max_rounds = 0
    /\ streaming = TRUE
    /\ dry_run = FALSE
    /\ auto_apply = FALSE
    /\ stopped = FALSE
    /\ consumed = 0
    /\ context_window = CONTEXT_WINDOW
    /\ in_round = NoRound
    /\ fs = InitialFs
    /\ pc = "idle"
    /\ round_num = 0
    /\ result = AgentResult
    /\ calls = <<>>
    /\ attempt = 0
    /\ stopped_at_start = FALSE
    /\ HInit

InitParse == AIdle /\ PInit /\ XInit

NextParse ==
    AddBlock \/ AddProse \/ AddRaw \/ AddOpen \/ AddWrapped \/ AddLegacy \/ DoParse

SpecParse == InitParse /\ [][NextParse]_vars

(***************************************************************************)
(* FileApplier driven directly: a batch is put together, applied, and      *)
(* applied again                                                           *)
(***************************************************************************)
MaxBatch == 2
MaxApplies == 2

\* The tree before the first apply: a.py with a trailing blank on its first
\* line and an indented last line.
ApplyFs ==
    [files |-> (PathOf(<<<<"r">>, T_A>>)
                  :> Text(<<T_Q \o T_X \o <<" ">>, T_Y, <<" ">> \o T_Q>>, <<LF>>)),
     dirs |-> {<<"/">>, PROJECT_ROOT}]

\* A second tree: a.py with the line "x" three times, the first with a
\* trailing blank, so that the search text "x", LF occurs exactly twice and
\* a normalized match starts before the first exact one.
MatchFs ==
    [files |-> (PathOf(<<<<"r">>, T_A>>)
                  :> Text(<<T_X \o <<" ">>, T_X, T_X>>, <<LF>>)),
     dirs |-> {<<"/">>, PROJECT_ROOT}]

\* The instructions a batch is made of.  On ApplyFs: replacements found by
\* each tier, a deletion, creations, and paths that validate_path rejects.
\* On MatchFs: a search text with several occurrences, search texts made of
\* blanks and of line breaks, a search text that is not in the file, and a
\* replacement in a file that does not exist.
ApplyEditChoices(tree) ==
    LET E(fp, sc, rc) == EditBlock(fp, sc, rc, <<>>)
    IN IF tree = MatchFs
       THEN { E(T_A, T_X \o <<LF>>, <<"z">>),
              E(T_A, <<" ", " ">>, <<"z">>),
              E(T_A, <<LF, LF>>, <<"z">>),
              E(T_A, <<"w">>, <<"z">>),
              E(T_B, T_X, <<"z">>) }
       ELSE { E(T_A, T_Y, T_Y \o <<"z">>),
              E(T_A, T_X \o <<LF>> \o T_Y, <<"z">>),
              E(T_A, T_Y \o <<LF>> \o T_Q, <<"z">>),
              E(T_A, T_Y, <<>>),
              E(T_A, <<>>, <<"z">>),
              E(<<"d", "/">> \o T_B, <<>>, <<"z">>),
              E(T_A \o <<"/", "x">>, <<>>, <<"z">>),
              E(<<".", ".", "/", "r", "/">> \o T_A, T_Y, <<"z">>),
              E(<<".", "e", "n", "v">>, <<>>, <<"z">>),
              E(<<"/", "e", "t", "c", "/", "p">>, <<>>, <<"z">>) }

\* The legacy blocks a batch is made of: full contents, a diff, and a path
\* that validate_path rejects.
ApplyBlockChoices ==
    LET Full(fp) == CodeBlock(fp, <<"z", LF>>, <<"p", "y">>, FALSE, <<>>)
    IN { Full(T_A), Full(T_B), Full(<<".", ".", "/", "z">>),
         CodeBlock(T_A,
                   Text(<<HUNK_PREFIX \o <<"1">>, <<"-">> \o T_Q, <<"+", "w">>>>, <<LF>>),
                   <<"d", "i", "f", "f">>, TRUE, <<>>) }

\* An instruction or a block is added to the batch; a batch holds one kind.
AddItem ==
    /\ applies = <<>>
    /\ applying = <<>>
    /\ Len(batch) < MaxBatch
    /\ \E kind \in {"edits", "blocks"} :
          /\ bkind \in {"none", kind}
          /\ bkind' = kind
          /\ \E item \in IF kind = "edits" THEN ApplyEditChoices(fs)
                         ELSE ApplyBlockChoices :
                batch' = Append(batch, item)
    /\ UNCHANGED <<applies, applying, avars, pvars>>

\* FileApplier.apply_edits or apply_all on the tree, by the kind of batch.
ApplyItems(tree, kind, items, mode, answers) ==
    IF kind = "edits" THEN ApplyEdits(tree, items, mode, answers)
    ELSE ApplyAll(tree, items, mode, answers)

\* A call of apply_edits / apply_all that has just been entered: the tree it
\* found, its mode, the answers given so far (TRUE for an item that did not
\* ask), the items that asked, the loop as it stands after each pass
\* (element k + 1 is the tree, the exception state and the outcomes once the
\* first k items are done), where the pass in progress stands (pass: at
\* its start, git: in the subprocess of _check_git_dirty, confirm: in
\* display.confirm) and, while display.confirm waits, the tree as the pass
\* read it.
Entered(tree, mode) ==
    [before |-> tree, mode |-> mode, answers |-> <<>>, asked |-> {},
     steps |-> <<Batch(tree, FALSE, <<>>)>>, at |-> "pass", read |-> <<>>]

\* The record of a call that has returned or raised with the last pass o:
\* an exception ends the loop, the items after it are not reached and
\* nothing is asked for them.
Finished(c, n, o) ==
    [before |-> c.before, mode |-> c.mode,
     answers |-> [k \in 1..n |-> IF k <= Len(c.answers) THEN c.answers[k] ELSE TRUE],
     asked |-> c.asked,
     steps |-> [k \in 1..(n + 1) |-> IF k <= Len(c.steps) THEN c.steps[k] ELSE o],
     out |-> o]

\* apply_edits / apply_all is called on the batch for the first time, in
\* any mode.
ApplyBatch ==
    /\ batch # <<>>
    /\ applies = <<>>
    /\ applying = <<>>
    /\ \E mode \in {"auto", "dry-run", "confirm"} : applying' = <<Entered(fs, mode)>>
    /\ UNCHANGED <<batch, bkind, applies, avars, pvars>>

\* The same batch is applied again, in the same mode, to the tree the last
\* call left.
ApplyAgain ==
    /\ applies # <<>>
    /\ applying = <<>>
    /\ Len(applies) < MaxApplies
    /\ applying' = <<Entered(fs, applies[Len(applies)].mode)>>
    /\ UNCHANGED <<batch, bkind, applies, avars, pvars>>

\* The rest of the pass of the call in progress, from the point where
\* nothing more is waited for: read is the tree as the pass read it, answer
\* what display.confirm returned when the pass asked (prompted).  After the
\* last item, or when OSError leaves the loop, the call is over.
ApplyPass(read, prompted, answer) ==
    LET c == applying[1]
        k == Len(c.steps)
        Passed(d, o) ==
            /\ fs' = o.fs
            /\ IF o.raised \/ k = Len(batch)
               THEN /\ applies' = Append(applies, Finished(d, Len(batch), o))
                    /\ applying' = <<>>
               ELSE /\ applying' = <<[d EXCEPT !.steps = Append(@, o)]>>
                    /\ UNCHANGED applies
    IN Passed([c EXCEPT !.answers = Append(@, answer),
                        !.asked = IF prompted THEN @ \cup {k} ELSE @,
                        !.at = "pass",
                        !.read = <<>>],
              LoopPass(bkind, read, Batch(fs, FALSE, c.steps[k].results), batch, k,
                       c.mode, answer))

\* The pass from the point where the git check is over (or was not made):
\* in confirm mode an item that gets to display.confirm waits in input()
\* with what it has read; every other pass runs to its end.
ApplyRead ==
    LET c == applying[1]
        k == Len(c.steps)
    IN IF c.mode = "confirm" /\ ReachesConfirm(fs, bkind, batch[k])
       THEN /\ applying' = <<[c EXCEPT !.at = "confirm", !.read = <<fs>>]>>
            /\ UNCHANGED <<fs, applies>>
       ELSE ApplyPass(fs, FALSE, TRUE)

\* The next pass of the loop of the call in progress begins: the path is
\* validated, and for a path that is a file the pass waits for the
\* subprocess of _check_git_dirty.
ApplyNext ==
    /\ applying # <<>>
    /\ applying[1].at = "pass"
    /\ IF ChecksGit(fs, batch[Len(applying[1].steps)])
       THEN /\ applying' = <<[applying[1] EXCEPT !.at = "git"]>>
            /\ UNCHANGED <<fs, applies>>
       ELSE ApplyRead
    /\ UNCHANGED <<batch, bkind, max_rounds, streaming, dry_run, auto_apply, stopped,
                   consumed, context_window, in_round, pc, round_num, result, calls,
                   attempt, stopped_at_start, hvars, pvars>>

\* The subprocess of _check_git_dirty is over (its answer only prints a
\* warning) and the pass goes on.
ApplyGit ==
    /\ applying # <<>>
    /\ applying[1].at = "git"
    /\ ApplyRead
    /\ UNCHANGED <<batch, bkind, max_rounds, streaming, dry_run, auto_apply, stopped,
                   consumed, context_window, in_round, pc, round_num, result, calls,
                   attempt, stopped_at_start, hvars, pvars>>

\* The user answers the prompt display.confirm waits at, and the pass goes
\* on: the backup and the write act on the tree as it is now, with the new
\* content made from what was read before the prompt.  A call that applies
\* the batch again gets, for an item that asked before, the answer the call
\* before it got.
ApplyAnswer ==
    /\ applying # <<>>
    /\ applying[1].at = "confirm"
    /\ LET k == Len(applying[1].steps)
           Asked == IF applies # <<>> /\ k \in applies[Len(applies)].asked
                    THEN {applies[Len(applies)].answers[k]}
                    ELSE BOOLEAN
       IN \E answer \in Asked : ApplyPass(applying[1].read[1], TRUE, answer)
    /\ UNCHANGED <<batch, bkind, max_rounds, streaming, dry_run, auto_apply, stopped,
                   consumed, context_window, in_round, pc, round_num, result, calls,
                   attempt, stopped_at_start, hvars, pvars>>

\* The applier on one of the two trees, the agent loop idle.
InitApply ==
    /\ max_rounds = 0
    /\ streaming = TRUE
    /\ dry_run = FALSE
    /\ auto_apply = FALSE
    /\ stopped = FALSE
    /\ consumed = 0
    /\ context_window = CONTEXT_WINDOW
    /\ in_round = NoRound
    /\ fs \in {ApplyFs, MatchFs}
    /\ pc = "idle"
    /\ round_num = 0
    /\ result = AgentResult
    /\ calls = <<>>
    /\ attempt = 0
    /\ stopped_at_start = FALSE
    /\ HInit
    /\ PInit
    /\ XInit

NextApply ==
    AddItem \/ ApplyBatch \/ ApplyAgain \/ ApplyNext \/ ApplyGit \/ ApplyAnswer

SpecApply == InitApply /\ [][NextApply]_vars

(***************************************************************************)
(* Properties of the agent loop (checked under Spec)                       *)
(***************************************************************************)
StopReasons == {"user_cancelled", "token_limit", "no_actions", "max_rounds"}

\* True iff the sequence holds no element twice.
NoDuplicates(q) == \A i, j \in 1..Len(q) : i # j => q[i] # q[j]

\* The number of instructions or blocks each reply text of the model, and
\* the empty reply of a failed call, parses to.
ReplyItems ==
    [t \in Replies \cup {<<>>} |->
        LET p == UnifiedParse(t) IN Len(p.edits) + Len(p.legacy)] @@ <<>>

\* True iff the reply text parses to at least one instruction or block.
ParsesToActions(text) == ReplyItems[text] > 0

\* C1: a run that found the cancellation flag set on entry returns with
\* stop_reason user_cancelled, no Round Outcome and no model-client call.
C1_CancelledAtStart ==
    (pc = "done" /\ stopped_at_start) =>
        /\ result.stop_reason = "user_cancelled"
        /\ result.rounds = <<>>
        /\ calls = <<>>

\* C2: at a round boundary with the flag unset and the tracker critical, the
\* step the loop takes ends the run with token_limit, making no
\* model-client call and appending no Round Outcome.
C2_TokenLimit ==
    [][(/\ pc = "loop"
        /\ round_num <= max_rounds
        /\ ~stopped
        /\ TrackerStatus(consumed, context_window) = "critical"
        /\ pc' # pc)
       => (/\ pc' = "done"
           /\ result'.stop_reason = "token_limit"
           /\ result'.rounds = result.rounds
           /\ calls' = calls)]_vars

\* Witness of C2: a run ended by token_limit after the tokens of an earlier
\* round made the tracker critical; the stopped round made no call.
C2_Witness ==
    /\ pc = "done"
    /\ result.stop_reason = "token_limit"
    /\ Len(result.rounds) = 1
    /\ Len(calls) = 1
    /\ result.total_tokens > 0
    /\ max_rounds = 2

\* C3: had_actions of a round is true iff its reply parsed to at least one
\* instruction or block, whatever the applies did; a round with had_actions
\* false is the last round and the run has ended with no_actions.
C3_HadActions ==
    \A k \in 1..Len(result.rounds) :
        LET rr == result.rounds[k]
        IN /\ rr.had_actions <=> ParsesToActions(rr.response)
           /\ ~rr.had_actions =>
                 /\ k = Len(result.rounds)
                 /\ pc = "done"
                 /\ result.stop_reason = "no_actions"

\* Witness of C3: a first round with had_actions true although nothing was
\* applied, then a configured final round without actions ending the run
\* with no_actions.
C3_Witness ==
    /\ pc = "done"
    /\ max_rounds = 2
    /\ Len(result.rounds) = 2
    /\ result.rounds[1].had_actions
    /\ result.rounds[1].files_applied = <<>>
    /\ result.rounds[1].failed_edits # <<>>
    /\ ~result.rounds[2].had_actions
    /\ result.rounds[2].response # <<>>
    /\ result.stop_reason = "no_actions"

\* C4: a returned run with max_rounds = N >= 1 in which every round had
\* actions, the flag was never set and the tracker was never critical when
\* the loop asked it has exactly N Round Outcomes and stop_reason
\* max_rounds.
C4_MaxRounds ==
    (/\ pc = "done"
     /\ max_rounds >= 1
     /\ ~stopped
     /\ \A k \in 1..Len(token_checks) : ~token_checks[k]
     /\ \A k \in 1..Len(result.rounds) : result.rounds[k].had_actions)
    => (/\ Len(result.rounds) = max_rounds
        /\ result.stop_reason = "max_rounds")

\* Witness of C4: two rounds with actions under max_rounds = 2.
C4_Witness ==
    /\ pc = "done"
    /\ max_rounds = 2
    /\ ~stopped
    /\ token_checks = <<FALSE, FALSE>>
    /\ Len(result.rounds) = 2
    /\ \A k \in 1..2 : result.rounds[k].had_actions
    /\ result.stop_reason = "max_rounds"

\* C5: the stop_reason of every returned Run Outcome is one of
\* user_cancelled, token_limit, no_actions, max_rounds.
C5_ClosedStopReason == pc = "done" => result.stop_reason \in StopReasons

\* True iff the k-th client call of the run was the first one of its
\* stream_or_complete, that is, of its round.
FirstOfRound(k) == k = 1 \/ sent_round[k - 1] # sent_round[k]

\* C6 as stated: under a persistent outage (every client call of the run
\* failed, flag unset, tracker not critical) the run attempts max_rounds
\* rounds.
C6_OutageConsumesBudget ==
    (/\ pc = "done"
     /\ calls # <<>>
     /\ \A k \in 1..Len(calls) : calls[k] # "reply"
     /\ ~stopped
     /\ TrackerStatus(consumed, context_window) # "critical")
    => Len(result.rounds) = max_rounds

\* C6 as amended: with streaming on, a first client call of a round that
\* failed without AuthError was followed by one more call in the same round
\* with the same message.  Any other failed client call is the last call of
\* the run: its round is recorded as an empty Round Outcome and the run has
\* ended right after it with no_actions, so a persistent outage ends the
\* run after one round.
C6_FailedRoundEndsRun ==
    \A k \in 1..Len(calls) :
        calls[k] # "reply" =>
            LET j == sent_round[k]
            IN IF streaming /\ calls[k] = "error" /\ FirstOfRound(k)
               THEN /\ Len(sent) > k
                    /\ sent[k + 1] = sent[k]
                    /\ sent_round[k + 1] = j
                    /\ ~FirstOfRound(k + 1)
               ELSE /\ k = Len(calls)
                    /\ pc = "done"
                    /\ Len(result.rounds) = j
                    /\ result.rounds[j] = RoundResult(j)
                    /\ result.stop_reason = "no_actions"

\* Witness of C6: under max_rounds = 2 with streaming on, the first call of
\* round 1 failed, the fallback call with the same message failed too, and
\* the run is over after that single empty round.
C6_Witness ==
    /\ pc = "done"
    /\ max_rounds = 2
    /\ streaming
    /\ calls = <<"error", "error">>
    /\ Len(sent) = 2
    /\ sent[2] = sent[1]
    /\ result.rounds = <<RoundResult(1)>>
    /\ result.stop_reason = "no_actions"

\* C7: run() always returns a Run Outcome, with at most max_rounds Round
\* Outcomes; no exception escapes it.
C7_AlwaysReturns ==
    /\ pc # "raised"
    /\ Len(result.rounds) <= max_rounds

\* C8: the successfully touched files of a returned Run Outcome hold each
\* path at most once.
C8_Deduplicated == pc = "done" => NoDuplicates(result.total_files_applied)

(***************************************************************************)
(* Properties of the parsers (checked under SpecParse)                     *)
(***************************************************************************)
\* C9: the dispatcher never returns instructions together with blocks: when
\* the primary parser yields an instruction the result is its instructions
\* and no block, otherwise the instruction list is empty.
C9_Exclusive ==
    pstate = "parsed" =>
        /\ ~(parsed.edits # <<>> /\ parsed.legacy # <<>>)
        /\ sr # <<>> => (parsed.edits = sr /\ parsed.legacy = <<>>)
        /\ sr = <<>> => parsed.edits = <<>>

\* Witness of C9: a parsed reply holding a primary-protocol block and text
\* the legacy parser would turn into a block.
C9_Witness ==
    /\ pstate = "parsed"
    /\ parsed.edits # <<>>
    /\ LegacyParse(reply) # <<>>

\* The lines ls joined by the line break nl.
RECURSIVE JoinWith(_, _)
JoinWith(ls, nl) ==
    IF ls = <<>> THEN <<>>
    ELSE IF Len(ls) = 1 THEN ls[1]
    ELSE ls[1] \o nl \o JoinWith(Tail(ls), nl)

\* The blocks among the segments of a reply, in document order.
BlocksOf(d) == SelectSeq(d, LAMBDA seg : seg.kind = "block")

\* True iff the reply is made of well-formed blocks and ordinary text only.
WellFormed(d) == \A k \in 1..Len(d) : d[k].kind \in {"block", "prose"}

\* C10: for a reply of N well-formed blocks and ordinary text the primary
\* parser returns N instructions, the i-th with the path of the i-th block
\* and its search and replace content less the line break before the
\* divider / end marker.
C10_BlocksInOrder ==
    (pstate = "parsed" /\ WellFormed(doc)) =>
        LET bs == BlocksOf(doc)
        IN /\ Len(sr) = Len(bs)
           /\ \A k \in 1..Len(bs) :
                 /\ sr[k].file_path = bs[k].path
                 /\ sr[k].search_content = JoinWith(bs[k].search, bs[k].nl)
                 /\ sr[k].replace_content = JoinWith(bs[k].replace, bs[k].nl)

\* The text of one segment of a constructed reply.
SegText(seg) ==
    IF seg.kind = "block" THEN BlockText(seg.path, seg.search, seg.replace, seg.nl)
    ELSE seg.text

\* The text of the segments d, in order.
RECURSIVE DocText(_)
DocText(d) == IF d = <<>> THEN <<>> ELSE SegText(Head(d)) \o DocText(Tail(d))

\* Position of the first segment of the kind, 0 when there is none.
FirstOfKind(d, kind) ==
    LET S == {k \in 1..Len(d) : d[k].kind = kind}
    IN IF S = {} THEN 0 ELSE Min(S)

\* C11 as stated: a block without its divider or end marker contributes no
\* instruction wherever it stands: the output starts with the instructions
\* of the text before it, and every further instruction is the instruction
\* of a well-formed block that follows it.
C11_OpenBlockAnywhere ==
    (pstate = "parsed" /\ FirstOfKind(doc, "open") # 0) =>
        LET j == FirstOfKind(doc, "open")
            pre == SRParse(DocText(SubSeq(doc, 1, j - 1)))
            later == {SRParse(SegText(doc[k])) :
                        k \in {n \in (j + 1)..Len(doc) : doc[n].kind = "block"}}
        IN /\ Len(sr) >= Len(pre)
           /\ SubSeq(sr, 1, Len(pre)) = pre
           /\ \A k \in (Len(pre) + 1)..Len(sr) : <<sr[k]>> \in later

\* C11 as amended: a block without its divider or end marker that is
\* followed by ordinary text only (no marker lines) contributes no
\* instruction, and the output is exactly the instructions of the text
\* before it.
C11_OpenBlockAtEnd ==
    (/\ pstate = "parsed"
     /\ FirstOfKind(doc, "open") # 0
     /\ \A k \in (FirstOfKind(doc, "open") + 1)..Len(doc) : doc[k].kind = "prose")
    => sr = SRParse(DocText(SubSeq(doc, 1, FirstOfKind(doc, "open") - 1)))

\* Witness of C11: a well-formed block, then a block without its end
\* marker, parsed to the one instruction of the first block.
C11_Witness ==
    /\ pstate = "parsed"
    /\ Len(doc) = 2
    /\ doc[1].kind = "block"
    /\ doc[2].kind = "open"
    /\ Find(doc[2].text, DIVIDER) # -1
    /\ Len(sr) = 1
    /\ sr[1].file_path = doc[1].path

\* C12: when the line before the SEARCH marker opens a code fence, the
\* instruction takes its path from the line before the fence, stripped of
\* inline code markers; if that line is no path the block yields nothing.
C12_FencePath ==
    (/\ pstate = "parsed"
     /\ doc # <<>>
     /\ doc[Len(doc)].kind = "wrapped"
     /\ WellFormed(SubSeq(doc, 1, Len(doc) - 1)))
    => LET pre == SRParse(DocText(SubSeq(doc, 1, Len(doc) - 1)))
           w == doc[Len(doc)]
       IN IF w.path = <<>> THEN sr = pre
          ELSE /\ Len(sr) = Len(pre) + 1
               /\ SubSeq(sr, 1, Len(pre)) = pre
               /\ sr[Len(sr)].file_path = w.path
               /\ sr[Len(sr)].search_content = <<>>
               /\ sr[Len(sr)].replace_content = T_Y

(***************************************************************************)
(* Properties of the applier (checked under SpecApply)                     *)
(***************************************************************************)
\* The path texts of the items the batches are made of.
ChoicePaths ==
    {e.file_path : e \in ApplyEditChoices(ApplyFs) \cup ApplyEditChoices(MatchFs)}
        \cup {b.file_path : b \in ApplyBlockChoices}

\* validate_path on each of them.
Validated == [fp \in ChoicePaths |-> ValidatePath(fp)]

\* The position of the call that has just returned; every call is that call
\* in the state it returns in, so a property of it in every state is a
\* property of every call.
LastCall == IF applies = <<>> \/ applying # <<>> THEN {} ELSE {Len(applies)}

\* The loop of call a once the first k items are done.
PrefixOut(a, k) == a.steps[k + 1]

\* The sequence q without its k-th element.
Without(q, k) == SubSeq(q, 1, k - 1) \o SubSeq(q, k + 1, Len(q))

\* True iff the path text has "..", resolves outside the project root, or
\* matches a blocked-write pattern.
MustReject(fp) ==
    \/ Find(fp, <<".", ".">>) # -1
    \/ ~IsRelativeTo(Resolve(fp), PROJECT_ROOT)
    \/ Blocked(Resolve(fp))

\* MustReject on each path of the batches.
Rejected == [fp \in ChoicePaths |-> MustReject(fp)]

\* C13: an instruction whose path has "..", leaves the project root or is
\* blocked changes no file in any mode, gets a failed outcome without
\* raising, and the other instructions of the batch are processed exactly
\* as they are without it.
C13_RejectedPathWritesNothing ==
    \A n \in LastCall : \A k \in 1..Len(batch) :
        Rejected[batch[k].file_path] =>
            LET a == applies[n]
                Own(pre, at) ==
                    ~pre.raised =>
                        /\ ~at.raised
                        /\ at.fs = pre.fs
                        /\ Len(at.results) = k
                        /\ ~at.results[k].success
                        /\ at.results[k].file_path = batch[k].file_path
                Siblings(out, rest) ==
                    /\ out.fs = rest.fs
                    /\ out.raised = rest.raised
                    /\ ~out.raised => Without(out.results, k) = rest.results
            IN /\ Own(PrefixOut(a, k - 1), PrefixOut(a, k))
               /\ Siblings(a.out,
                           ApplyItems(a.before, bkind, Without(batch, k),
                                      a.mode, Without(a.answers, k)))

\* Witness of C13: in auto mode, a replacement through "../r/a.py" failed
\* and the creation after it succeeded.
C13_Witness ==
    /\ Len(applies) = 1
    /\ applies[1].mode = "auto"
    /\ bkind = "edits"
    /\ Len(batch) = 2
    /\ batch[1].file_path = <<".", ".", "/", "r", "/">> \o T_A
    /\ ~applies[1].out.raised
    /\ ~applies[1].out.results[1].success
    /\ applies[1].out.results[2].success
    /\ fs.files[PathOf(<<<<"r">>, T_A>>)] = ApplyFs.files[PathOf(<<<<"r">>, T_A>>)]

\* C14: a call of apply_edits / apply_all returns one outcome for each
\* item of the batch, in the order of the batch, whatever fails: no
\* exception ends the batch, and the outcomes of the first k items are those
\* of the batch made of these k items alone.
C14_OneOutcomePerItem ==
    \A n \in LastCall :
        LET a == applies[n]
            Returned(out) ==
                /\ ~out.raised
                /\ Len(out.results) = Len(batch)
                /\ \A k \in 1..Len(batch) :
                      out.results[k].file_path = batch[k].file_path
            Independent(out) ==
                \A k \in 1..Len(batch) :
                    PrefixOut(a, k).results = SubSeq(out.results, 1, k)
        IN Returned(a.out) /\ Independent(a.out)

\* True iff, in auto mode, item k of the batch is a creation whose path
\* passes validation and names nothing in the tree the call a finds when it
\* reaches the item.
CreatesNewPath(a, k) ==
    /\ bkind = "edits"
    /\ a.mode = "auto"
    /\ IsCreate(batch[k])
    /\ Validated[batch[k].file_path] # None
    /\ LET Missing(pre) ==
               /\ ~pre.raised
               /\ ~IsFile(pre.fs, Validated[batch[k].file_path])
               /\ ~IsDir(pre.fs, Validated[batch[k].file_path])
       IN Missing(PrefixOut(a, k - 1))

\* True iff item k of the call a succeeded and left a file holding exactly
\* replace_content, its parent directories made, and no other file
\* (no .bak) added.
Created(a, k) ==
    LET path == Validated[batch[k].file_path]
        Holds(pre, at) ==
            /\ ~at.raised
            /\ at.results[k].success
            /\ IsFile(at.fs, path)
            /\ at.fs.files[path] = batch[k].replace_content
            /\ Ancestors(Parent(path)) \subseteq at.fs.dirs
            /\ DOMAIN at.fs.files = DOMAIN pre.fs.files \cup {path}
            /\ \A p \in DOMAIN pre.fs.files : at.fs.files[p] = pre.fs.files[p]
    IN Holds(PrefixOut(a, k - 1), PrefixOut(a, k))

\* C15 as stated: in auto mode a creation whose path passes validation and
\* does not exist succeeds, the file holds replace_content, the missing
\* parent directories are made and no .bak is written.
C15_CreateAlwaysSucceeds ==
    \A n \in LastCall : \A k \in 1..Len(batch) :
        CreatesNewPath(applies[n], k) => Created(applies[n], k)

\* C15 as amended: the same, for a path none of whose parent components is
\* a regular file.
C15_CreateUnderDirectories ==
    \A n \in LastCall : \A k \in 1..Len(batch) :
        LET ParentsFree(pre) ==
                \A anc \in Ancestors(Parent(Validated[batch[k].file_path])) :
                    ~IsFile(pre.fs, anc)
        IN (CreatesNewPath(applies[n], k)
              /\ ParentsFree(PrefixOut(applies[n], k - 1)))
           => Created(applies[n], k)

\* Witness of C15: d/b.py was created in auto mode and its directory made.
C15_Witness ==
    /\ Len(applies) = 1
    /\ Len(batch) = 1
    /\ CreatesNewPath(applies[1], 1)
    /\ batch[1].file_path = <<"d", "/">> \o T_B
    /\ fs.files[PathOf(<<<<"r">>, <<"d">>, T_B>>)] = <<"z">>
    /\ PathOf(<<<<"r">>, <<"d">>>>) \in fs.dirs
    /\ PathOf(<<<<"r">>, <<"d">>>>) \notin ApplyFs.dirs

\* C16: a replacement whose search text is found by tier 2 or tier 3 only
\* replaces exactly the span of the file that equals the search text once
\* trailing (tier 2) or leading (tier 3) blanks are stripped from its lines:
\* the file after is the file before with that span exchanged for
\* replace_content, every character outside the span kept.
C16_NormalizedMatchByteCorrect ==
    \A n \in LastCall : \A k \in 1..Len(batch) :
        LET a == applies[n]
            edit == batch[k]
            path == Validated[edit.file_path]
            ByteCorrect(before, after) ==
                \E s \in 0..Len(before) : \E e \in s..Len(before) :
                    /\ \/ NormalizeTrailingWs(Slice(before, s, e))
                            = NormalizeTrailingWs(edit.search_content)
                       \/ NormalizeIndent(Slice(before, s, e))
                            = NormalizeIndent(edit.search_content)
                    /\ after = Slice(before, 0, s) \o edit.replace_content
                                 \o Slice(before, e, Len(before))
            Holds(pre, at) ==
                (/\ ~pre.raised
                 /\ IsFile(pre.fs, path)
                 /\ Find(ReadText(pre.fs, path), edit.search_content) = -1
                 /\ ~at.raised
                 /\ at.results[k].success)
                => ByteCorrect(ReadText(pre.fs, path), at.fs.files[path])
        IN (bkind = "edits" /\ a.mode = "auto" /\ ~IsCreate(edit) /\ path # None)
           => Holds(PrefixOut(a, k - 1), PrefixOut(a, k))

\* True iff the batch is one replacement that the first call applied in
\* auto mode and a second call has applied again.
Reapplied ==
    /\ bkind = "edits"
    /\ Len(batch) = 1
    /\ ~IsCreate(batch[1])
    /\ Len(applies) >= 2
    /\ applies[1].mode = "auto"
    /\ ~applies[1].out.raised
    /\ applies[1].out.results[1].success

\* True iff the second call failed with the search-not-found outcome and
\* left the tree as the first call left it.
SecondNotFound ==
    LET Holds(second) ==
            /\ ~second.out.raised
            /\ ~second.out.results[1].success
            /\ second.out.results[1].error_message # <<>>
            /\ Head(second.out.results[1].error_message) = "SEARCH block not found in "
            /\ second.out.fs = second.before
            /\ second.before = applies[1].out.fs
    IN Holds(applies[2])

\* C17 as stated: a replacement that was applied successfully fails with
\* search-not-found when it is applied a second time, and the file stays as
\* the first application left it.
C17_ReapplyFails == Reapplied => SecondNotFound

\* C17 as amended: the second application fails so whenever the file left
\* by the first one no longer holds the search text, lines compared with
\* leading and trailing blanks ignored.
C17_ReapplyFailsWhenGone ==
    LET StripLines(text) == NormalizeIndent(NormalizeTrailingWs(text))
        Gone(content) ==
            Find(StripLines(content), StripLines(batch[1].search_content)) = -1
    IN (Reapplied
          /\ Gone(ReadText(applies[1].out.fs, Validated[batch[1].file_path])))
       => SecondNotFound

\* Witness of C17: the tier 2 replacement of "x", "y" by "z" was applied,
\* and applied again without effect.
C17_Witness ==
    /\ Reapplied
    /\ SecondNotFound
    /\ batch[1].search_content = T_X \o <<LF>> \o T_Y
    /\ fs.files[PathOf(<<<<"r">>, T_A>>)] = <<"z", " ">> \o T_Q \o <<LF>>

\* C18: an item applied in dry-run mode, or in confirm mode with the
\* prompt declined, leaves the tree as it found it (nothing created,
\* modified or backed up) and its outcome is a failure; a call in which
\* this is so for every item leaves the tree as it was before the call.
C18_NoWriteUnlessApplied ==
    \A n \in LastCall :
        LET a == applies[n]
            NotToApply(k) ==
                a.mode = "dry-run" \/ (a.mode = "confirm" /\ ~a.answers[k])
            Untouched(k, pre, at) ==
                ~pre.raised =>
                    /\ ~at.raised
                    /\ at.fs = pre.fs
                    /\ Len(at.results) = k
                    /\ ~at.results[k].success
        IN /\ \A k \in 1..Len(batch) :
                 NotToApply(k) => Untouched(k, PrefixOut(a, k - 1), PrefixOut(a, k))
           /\ (\A k \in 1..Len(batch) : NotToApply(k)) =>
                 /\ ~a.out.raised
                 /\ a.out.fs = a.before
                 /\ fs = applies[1].before

\* Witness of C18: a batch that starts with a replacement in a.py was
\* applied twice in dry-run mode, every outcome is a failure and the tree
\* is the initial one.
C18_Witness ==
    /\ Len(applies) = 2
    /\ applies[2].mode = "dry-run"
    /\ bkind = "edits"
    /\ Len(batch) = 2
    /\ batch[1].file_path = T_A
    /\ batch[1].search_content = T_Y
    /\ IsCreate(batch[2])
    /\ Validated[batch[2].file_path] # None
    /\ \A k \in 1..2 : ~applies[2].out.results[k].success
    /\ fs = ApplyFs

\* The sibling of a path that holds its backup.
BackupOf(path) == path \o <<".", "b", "a", "k">>

\* C19: with backups enabled, an item that is applied with success to a
\* path that is a file leaves the sibling .bak holding the bytes the file
\* had before the item was applied (whether the item is an edit, a delete,
\* a full-content block, a diff, or an instruction with empty search);
\* an item applied with success to a path that did not exist adds no .bak.
C19_BackupBeforeOverwrite ==
    \A n \in LastCall : \A k \in 1..Len(batch) :
        LET a == applies[n]
            path == Validated[batch[k].file_path]
            Holds(pre, at) ==
                (~pre.raised /\ ~at.raised /\ at.results[k].success) =>
                    IF IsFile(pre.fs, path)
                    THEN /\ IsFile(at.fs, BackupOf(path))
                         /\ at.fs.files[BackupOf(path)] = pre.fs.files[path]
                    ELSE IsFile(at.fs, BackupOf(path))
                           => IsFile(pre.fs, BackupOf(path))
        IN (CreateBackups /\ path # None)
           => Holds(PrefixOut(a, k - 1), PrefixOut(a, k))

\* The pre-existing target of the batches: a.py in the project root.
Target == PathOf(<<<<"r">>, T_A>>)

\* The calls made so far, the one in progress last.
CallsSoFar == applies \o applying

\* The items <<n, k>> (call n, item k) that have overwritten the target
\* with success: by an edit, a delete, a full-content block, a diff, or an
\* instruction with empty search.
Overwrites ==
    {q \in (1..Len(CallsSoFar)) \X (1..Len(batch)) :
        LET a == CallsSoFar[q[1]]
            k == q[2]
            Did(pre, at) ==
                /\ ~pre.raised
                /\ ~at.raised
                /\ IsFile(pre.fs, Target)
                /\ at.results[k].success
        IN /\ k < Len(a.steps)
           /\ Did(PrefixOut(a, k - 1), PrefixOut(a, k))
           /\ Resolve(batch[k].file_path) = Target}

\* The overwrites that run the backup step (applier.py 481-483, 606-608,
\* 638-640): all but those made by an instruction with empty search, whose
\* branch (428-442) has none.
BackedUp == {q \in Overwrites : ~(bkind = "edits" /\ IsCreate(batch[q[2]]))}

\* True iff the item q comes no later than the item r.
NoLater(q, r) == q[1] < r[1] \/ (q[1] = r[1] /\ q[2] <= r[2])

\* The content of the target just before the item q was applied.
ContentBefore(q) == PrefixOut(CallsSoFar[q[1]], q[2] - 1).fs.files[Target]

\* The .bak of the target in a tree: its content in a one-element sequence,
\* or the empty sequence when there is none.
BackupIn(tree) ==
    IF IsFile(tree, BackupOf(Target)) THEN <<tree.files[BackupOf(Target)]>>
    ELSE <<>>

\* C20 as stated: with backups enabled, once the target has been
\* overwritten, its .bak holds the content the target had before the first
\* of the overwrites.
C20_BackupHoldsFirstContent ==
    (CreateBackups /\ Overwrites # {}) =>
        LET first == CHOOSE q \in Overwrites : \A r \in Overwrites : NoLater(q, r)
        IN /\ IsFile(fs, BackupOf(Target))
           /\ fs.files[BackupOf(Target)] = ContentBefore(first)

\* C20 as amended: once the target has been overwritten, its .bak holds
\* the content the target had just before the most recent overwrite that
\* runs the backup step (an edit, a delete, a full-content block or a
\* diff); overwrites by an instruction with empty search write no backup,
\* so when there has been no other overwrite the .bak is as the first call
\* found it (here: absent).
C20_BackupHoldsLastContent ==
    (CreateBackups /\ Overwrites # {}) =>
        IF BackedUp = {}
        THEN BackupIn(fs) = BackupIn(CallsSoFar[1].before)
        ELSE LET last == CHOOSE q \in BackedUp : \A r \in BackedUp : NoLater(r, q)
             IN BackupIn(fs) = <<ContentBefore(last)>>

\* Witness of C20: the replacement of "y" by "yz" was applied twice, and
\* the .bak holds the content between the two.
C20_Witness ==
    /\ bkind = "edits"
    /\ applying = <<>>
    /\ Overwrites = {<<1, 1>>, <<2, 1>>}
    /\ BackedUp = Overwrites
    /\ batch[1].replace_content = T_Y \o <<"z">>
    /\ fs.files[BackupOf(Target)]
         = Text(<<T_Q \o T_X \o <<" ">>, T_Y \o <<"z">>, <<" ">> \o T_Q>>, <<LF>>)
    /\ fs.files[BackupOf(Target)] # ApplyFs.files[Target]
    /\ fs.files[Target]
         = Text(<<T_Q \o T_X \o <<" ">>, T_Y \o <<"z", "z">>, <<" ">> \o T_Q>>, <<LF>>)

\* C21: an edit or delete aimed at a path that is no file gets the failed
\* file-not-found outcome, and one whose search text matches under no tier
\* gets the failed search-not-found outcome with the truncated content of
\* the file; in both cases the tree stays as it was (no file made or
\* modified, no .bak) and the batch goes on without an exception.
C21_FailuresAreOutcomes ==
    \A n \in LastCall : \A k \in 1..Len(batch) :
        LET a == applies[n]
            edit == batch[k]
            path == Validated[edit.file_path]
            Failed(pre, at, message, snippet) ==
                /\ ~at.raised
                /\ at.fs = pre.fs
                /\ Len(at.results) = k
                /\ ~at.results[k].success
                /\ at.results[k].error_message # <<>>
                /\ Head(at.results[k].error_message) = message
                /\ at.results[k].file_content_snippet = snippet
                /\ Len(a.out.results) >= k \/ a.out.raised
            Holds(pre, at) ==
                ~pre.raised =>
                    IF ~IsFile(pre.fs, path)
                    THEN Failed(pre, at, "File not found: ", <<>>)
                    ELSE ~FindSearchContent(ReadText(pre.fs, path),
                                            edit.search_content).found
                         => Failed(pre, at, "SEARCH block not found in ",
                                   TruncateContent(ReadText(pre.fs, path)))
        IN (bkind = "edits" /\ ~IsCreate(edit) /\ path # None)
           => Holds(PrefixOut(a, k - 1), PrefixOut(a, k))

\* Witness of C21: in auto mode, a search text that is not in a.py and a
\* replacement in the missing b.py both failed, the tree is as before, and
\* the third instruction of the batch was still applied or there is none.
C21_Witness ==
    /\ Len(applies) = 1
    /\ applies[1].mode = "auto"
    /\ applies[1].before = MatchFs
    /\ bkind = "edits"
    /\ Len(batch) = 2
    /\ batch[1].search_content = <<"w">>
    /\ batch[2].file_path = T_B
    /\ Head(applies[1].out.results[1].error_message) = "SEARCH block not found in "
    /\ applies[1].out.results[1].file_content_snippet = MatchFs.files[Target]
    /\ Head(applies[1].out.results[2].error_message) = "File not found: "
    /\ fs = MatchFs

\* The offsets at which needle occurs in hay, byte for byte.
Occurrences(hay, needle) ==
    {i \in 0..(Len(hay) - Len(needle)) : Slice(hay, i, i + Len(needle)) = needle}

\* C25: when the search text of an edit or delete occurs exactly in the
\* file, the instruction never fails for the search, however many
\* occurrences there are, and when it is applied the new content is the old
\* one with the first exact occurrence, and only that one, replaced.
C25_FirstExactOccurrenceReplaced ==
    \A n \in LastCall : \A k \in 1..Len(batch) :
        LET a == applies[n]
            edit == batch[k]
            path == Resolve(edit.file_path)
            Applies == a.mode = "auto" \/ (a.mode = "confirm" /\ a.answers[k])
            Replaced(content, i) ==
                Slice(content, 0, i) \o edit.replace_content
                  \o Slice(content, i + Len(edit.search_content), Len(content))
            Holds(pre, at, content, occ) ==
                occ # {} =>
                    /\ ~at.raised
                    /\ at.results[k].error_message = <<>>
                    /\ at.results[k].success = Applies
                    /\ Applies => ReadText(at.fs, path) = Replaced(content, Min(occ))
                    /\ ~Applies => at.fs = pre.fs
            OnFile(pre, at) ==
                (~pre.raised /\ IsFile(pre.fs, path))
                => Holds(pre, at, ReadText(pre.fs, path),
                         Occurrences(ReadText(pre.fs, path), edit.search_content))
        IN (bkind = "edits" /\ ~IsCreate(edit) /\ Validated[edit.file_path] # None)
           => OnFile(PrefixOut(a, k - 1), PrefixOut(a, k))

\* Witness of C25: "x" and a line feed occur exactly at offsets 3 and 5 of
\* "x \nx\nx\n" and would match line 0 with trailing blanks ignored; the
\* applied instruction replaced the occurrence at offset 3 alone.
C25_Witness ==
    /\ Len(applies) = 1
    /\ applies[1].mode = "auto"
    /\ applies[1].before = MatchFs
    /\ bkind = "edits"
    /\ batch = <<EditBlock(T_A, T_X \o <<LF>>, <<"z">>, <<>>)>>
    /\ Occurrences(MatchFs.files[Target], T_X \o <<LF>>) = {3, 5}
    /\ applies[1].out.results[1].success
    /\ fs.files[Target] = T_X \o <<" ", LF, "z">> \o T_X \o <<LF>>

\* A non-empty text made only of whitespace.
OnlyWhitespace(text) == text # <<>> /\ \A i \in 1..Len(text) : IsSpace(text[i])

\* The case of C30: item k of the last call is an instruction on an
\* existing file whose search text is whitespace that does not occur in it.
WhitespaceSearch(a, k) ==
    /\ bkind = "edits"
    /\ OnlyWhitespace(batch[k].search_content)
    /\ ~PrefixOut(a, k - 1).raised
    /\ IsFile(PrefixOut(a, k - 1).fs, Resolve(batch[k].file_path))
    /\ Occurrences(ReadText(PrefixOut(a, k - 1).fs, Resolve(batch[k].file_path)),
                   batch[k].search_content) = {}
    /\ Validated[batch[k].file_path] # None

\* Item k of call a spliced its replacement in front of the file: no
\* search-not-found outcome, and in auto mode the new content is the
\* replacement followed by all of the old content.
InsertedAtStart(a, k) ==
    LET path == Resolve(batch[k].file_path)
        pre == PrefixOut(a, k - 1)
        at == PrefixOut(a, k)
    IN /\ ~at.raised
       /\ at.results[k].error_message = <<>>
       /\ a.mode = "auto" =>
            /\ at.results[k].success
            /\ ReadText(at.fs, path) = batch[k].replace_content \o ReadText(pre.fs, path)

\* C30 as stated: every whitespace-only search text that does not occur in
\* the file is matched as the empty span at offset 0.
C30_WhitespaceSearchInserts ==
    \A n \in LastCall : \A k \in 1..Len(batch) :
        WhitespaceSearch(applies[n], k) => InsertedAtStart(applies[n], k)

\* C30 amended: a whitespace-only search text of a single line (no line
\* break, or one at its very end) that does not occur in the file is
\* matched as the empty span at offset 0.
C30_BlankLineSearchInserts ==
    \A n \in LastCall : \A k \in 1..Len(batch) :
        (WhitespaceSearch(applies[n], k) /\ Len(SplitLines(batch[k].search_content)) <= 1)
        => InsertedAtStart(applies[n], k)

\* Witness of C30: two blanks, which "x \nx\nx\n" does not contain, were
\* applied in auto mode and the replacement stands before the old content.
C30_Witness ==
    /\ Len(applies) = 1
    /\ applies[1].mode = "auto"
    /\ applies[1].before = MatchFs
    /\ bkind = "edits"
    /\ batch = <<EditBlock(T_A, <<" ", " ">>, <<"z">>, <<>>)>>
    /\ WhitespaceSearch(applies[1], 1)
    /\ applies[1].out.results[1].success
    /\ fs.files[Target] = <<"z">> \o MatchFs.files[Target]

\* The scan a legacy block comes from: 1 fenced (it alone has a language),
\* 2 unified diff, 3 FILE: marker.
ScanOf(b) == IF b.is_diff THEN 2 ELSE IF b.language # <<>> THEN 1 ELSE 3

\* Every match of the three scans that names a path (and, for a FILE:
\* marker, has content), in scan order and within a scan in text order.
Captures(s) ==
    LET Of(ms, scan, pathOf(_), ok(_)) ==
            SelectSeq([k \in 1..Len(ms) |->
                         [path |-> Strip(pathOf(ms[k])), scan |-> scan,
                          text |-> Slice(s, ms[k].start, ms[k].end),
                          ok |-> ok(ms[k])]],
                      LAMBDA c : c.path # <<>> /\ c.ok)
        FencedPath(mt) == mt.g2
        DiffPath(mt) == IF Strip(mt.g3) # <<>> THEN mt.g3 ELSE mt.g2
        MarkerPath(mt) == mt.g1
        Always(mt) == TRUE
        HasContent(mt) == Strip(mt.g2) # <<>>
    IN Of(FencedIter(s, 0), 1, FencedPath, Always)
         \o Of(DiffIter(s, 0), 2, DiffPath, Always)
         \o Of(FileMarkerIter(s, 0), 3, MarkerPath, HasContent)

\* C22: the legacy parser's output has at most one block per path, its
\* blocks stand in scan order (fenced, diff, FILE: marker), and the block of
\* a path is the first capture of that path in scan order.
C22_OneBlockPerPath ==
    (pstate = "parsed" /\ parsed.edits = <<>>) =>
        LET out == parsed.legacy
            caps == Captures(reply)
            First(path) == caps[Min({k \in 1..Len(caps) : caps[k].path = path})]
        IN /\ \A i, j \in 1..Len(out) :
                i < j => /\ out[i].file_path # out[j].file_path
                         /\ ScanOf(out[i]) <= ScanOf(out[j])
           /\ {out[i].file_path : i \in 1..Len(out)}
                = {caps[k].path : k \in 1..Len(caps)}
           /\ \A i \in 1..Len(out) :
                /\ ScanOf(out[i]) = First(out[i].file_path).scan
                /\ out[i].original_text = First(out[i].file_path).text

\* Witness of C22: a fenced block for c.py followed by a FILE: marker for
\* c.py was parsed, and the one block is the fenced one.
C22_Witness ==
    /\ pstate = "parsed"
    /\ Len(doc) = 2
    /\ doc[1].kind = "legacy" /\ doc[1].format = "fenced" /\ doc[1].path = T_C
    /\ doc[2].kind = "legacy" /\ doc[2].format = "file" /\ doc[2].path = T_C
    /\ Len(Captures(reply)) = 2
    /\ Len(parsed.legacy) = 1
    /\ parsed.legacy[1].language = <<"p", "y">>
    /\ parsed.legacy[1].file_path = T_C

\* A path that is plausibly a file path: it has a dot or a slash and does
\* not start with a code fence.
PlausiblePath(path) ==
    /\ \E i \in 1..Len(path) : path[i] \in {".", "/"}
    /\ ~OccursAt(path, FENCE, 0)

\* C23: the legacy parser emits no block for a fenced block whose path part
\* is not a plausible file path (a bare word, or a path that starts with a
\* code fence).
C23_ImplausiblePathRejected ==
    (pstate = "parsed" /\ parsed.edits = <<>>) =>
        \A i \in 1..Len(parsed.legacy) :
            ScanOf(parsed.legacy[i]) = 1 => PlausiblePath(parsed.legacy[i].file_path)

\* Number of instructions or blocks the reply text parses to.
ParsedItems(text) == ReplyItems[text]

\* Round k as the Run Outcome records it once the run has gone on past it:
\* k rounds, the last numbered k, its reply parsed and one outcome per
\* instruction or block.
RecordedRound(k) ==
    LET rr == result.rounds[k]
    IN /\ Len(result.rounds) = k
       /\ rr.round_number = k
       /\ rr.had_actions <=> ParsesToActions(rr.response)
       /\ Len(rr.files_applied) + Len(rr.failed_edits) = ParsedItems(rr.response)

\* The stop_reason of a run that returns after round k with the flag set
\* in flight of that round.
ReasonAfter(k) ==
    IF ~result.rounds[k].had_actions THEN "no_actions"
    ELSE IF k >= max_rounds THEN "max_rounds"
    ELSE "user_cancelled"

\* C24 as stated: once stop() has set the flag no further message is passed
\* to the model client; when the flag was set while round k was in flight,
\* round k is recorded once the run has gone on, with its reply parsed and
\* one outcome per instruction, and the returned run has exactly k rounds
\* and stop_reason user_cancelled, unless round k ended the run itself with
\* no_actions or max_rounds.
C24_CancelAtRoundBoundary ==
    LET k == stopped_in[2]
    IN runs = 1 =>
        /\ stopped_in[1] # "" => Len(sent) = stopped_in[3]
        /\ stopped_in[1] \in {"call", "apply", "git", "confirm"} =>
             /\ pc = "loop" => RecordedRound(k)
             /\ pc = "done" => RecordedRound(k) /\ result.stop_reason = ReasonAfter(k)

\* C24 as amended: the only message passed to the model client after
\* stop() has set the flag is the fallback of the round in flight: at most
\* one, with streaming on, right after a first call of round k that was in
\* progress when the flag was set and failed, and with the same message.  No
\* message of a later round is sent, and round k is recorded and ends the
\* run as stated.
C24_CancelEndsAfterRound ==
    LET k == stopped_in[2]
        n == stopped_in[3]
    IN runs = 1 =>
        /\ stopped_in[1] # "" =>
             \A i \in (n + 1)..Len(sent) :
                 /\ i = n + 1
                 /\ stopped_in[1] = "call"
                 /\ streaming
                 /\ sent_round[i] = k
                 /\ sent_round[n] = k
                 /\ FirstOfRound(n)
                 /\ calls[n] = "error"
                 /\ sent[i] = sent[n]
        /\ stopped_in[1] \in {"call", "apply", "git", "confirm"} =>
             /\ pc = "loop" => RecordedRound(k)
             /\ pc = "done" => RecordedRound(k) /\ result.stop_reason = ReasonAfter(k)

\* Witness of C24: the flag was set during the first client call of round 1
\* of 2; that call failed, the fallback call was made after the flag and
\* replied, the round applied its instruction and the run returned
\* user_cancelled after that one round.
C24_Witness ==
    /\ pc = "done"
    /\ runs = 1
    /\ max_rounds = 2
    /\ stopped_in = <<"call", 1, 1>>
    /\ calls = <<"error", "reply">>
    /\ sent_round = <<1, 1>>
    /\ Len(result.rounds) = 1
    /\ result.rounds[1].files_applied # <<>>
    /\ result.stop_reason = "user_cancelled"

\* The positions in sent of the messages passed in round k.
SentIn(k) == {i \in 1..Len(sent) : sent_round[i] = k}

\* The message built from the outcome of round k: the one first sent in
\* round k + 1 when there was such a round, else what
\* _build_feedback_message gives for the recorded outcome.
FeedbackOf(k) ==
    IF SentIn(k + 1) # {}
    THEN sent[CHOOSE i \in SentIn(k + 1) : \A j \in SentIn(k + 1) : i <= j]
    ELSE BuildFeedbackMessage(result.rounds[k])

\* The positions of a phrase in a message, and the i-th of them.
PhraseAt(m, phrase) == {i \in 1..Len(m) : m[i] = phrase}
NthPhrase(m, phrase, n) ==
    CHOOSE i \in PhraseAt(m, phrase) :
        Cardinality({j \in PhraseAt(m, phrase) : j < i}) = n - 1

\* True iff text stands in m from position i on, followed by the end of the
\* message or an empty line.
ParagraphEndsAt(m, i, text) ==
    /\ SubSeq(m, i, i + Len(text) - 1) = text
    /\ \/ i + Len(text) - 1 = Len(m)
       \/ SubSeq(m, i + Len(text), i + Len(text) + 1) = <<LF, LF>>

\* C26: the feedback built from a Round Outcome has the success sentence,
\* naming every applied path, iff a path was applied; one FAILED line per
\* failed outcome, in order, with the outcome's path and error and, when
\* the outcome has a snippet, followed by it; the retry sentence iff an
\* outcome failed; the remaining-tasks sentence as its end iff there are
\* successes and no failures; and it is the next-steps sentence iff there
\* are neither.
C26_FeedbackDropsNothing ==
    \A k \in 1..Len(result.rounds) :
        LET rr == result.rounds[k]
            m == FeedbackOf(k)
            applied == rr.files_applied
            failed == rr.failed_edits
            Line(f) == <<"FAILED to apply edit to ">> \o f.file_path \o <<": ">>
                         \o f.error_message
            Shown(f) == <<"Current content of ">> \o f.file_path \o <<":", LF>>
                          \o FENCE \o <<LF>> \o f.file_content_snippet \o <<LF>> \o FENCE
            Reported(f) ==
                IF f.file_content_snippet # <<>>
                THEN Line(f) \o <<LF, LF>> \o Shown(f)
                ELSE Line(f)
        IN /\ Cardinality(PhraseAt(m, "Successfully applied changes to: "))
                = IF applied # <<>> THEN 1 ELSE 0
           /\ applied # <<>> =>
                ParagraphEndsAt(m, 1, <<"Successfully applied changes to: ">>
                                        \o JoinWith(applied, <<",", " ">>) \o <<".">>)
           /\ Cardinality(PhraseAt(m, "FAILED to apply edit to ")) = Len(failed)
           /\ \A n \in 1..Len(failed) :
                ParagraphEndsAt(m, NthPhrase(m, "FAILED to apply edit to ", n),
                                Reported(failed[n]))
           /\ Cardinality(PhraseAt(m, RETRY_SENTENCE[1]))
                = IF failed # <<>> THEN 1 ELSE 0
           /\ (m # <<>> /\ m[Len(m)] = REMAINING_SENTENCE[1])
                <=> (applied # <<>> /\ failed = <<>>)
           /\ m = NEXT_STEPS_SENTENCE <=> (applied = <<>> /\ failed = <<>>)

\* Witness of C26: the message sent in round 2 reports one applied path
\* and one failed outcome of round 1, and asks for the retry.
C26_Witness ==
    /\ sent_round = <<1, 2>>
    /\ Len(result.rounds) >= 1
    /\ Len(result.rounds[1].files_applied) = 1
    /\ Len(result.rounds[1].failed_edits) = 1
    /\ sent[2][1] = "Successfully applied changes to: "
    /\ Cardinality(PhraseAt(sent[2], "FAILED to apply edit to ")) = 1
    /\ sent[2][Len(sent[2])] = RETRY_SENTENCE[1]

\* C27: in a returned Run Outcome the rounds are numbered 1..k with
\* k <= max_rounds, every round but the last had actions, a message was
\* sent in each of these rounds and in no other, every message sent in
\* round 1 is the full prompt and every message sent in round j > 1 is the
\* feedback built from the outcome of round j - 1, which is never the
\* prompt again.
C27_RoundsChained ==
    pc = "done" =>
        /\ Len(result.rounds) <= max_rounds
        /\ {sent_round[i] : i \in 1..Len(sent)} = 1..Len(result.rounds)
        /\ \A k \in 1..Len(result.rounds) :
             /\ result.rounds[k].round_number = k
             /\ k < Len(result.rounds) => result.rounds[k].had_actions
             /\ \A i \in SentIn(k) :
                  /\ k = 1 => sent[i] = BuildFullPrompt(USER_MESSAGE, <<>>, <<>>)
                  /\ k > 1 => /\ sent[i] = BuildFeedbackMessage(result.rounds[k - 1])
                              /\ sent[i] # sent[1]

\* Witness of C27: a returned run of two rounds; the first call of round 2
\* failed and its fallback replied, and both messages of round 2 are the
\* feedback on the first round's failed instruction.
C27_Witness ==
    /\ pc = "done"
    /\ Len(result.rounds) = 2
    /\ result.rounds[1].had_actions
    /\ result.rounds[1].failed_edits # <<>>
    /\ sent_round = <<1, 2, 2>>
    /\ calls = <<"reply", "error", "reply">>
    /\ sent[1] = USER_MESSAGE
    /\ sent[2] = BuildFeedbackMessage(result.rounds[1])
    /\ sent[3] = sent[2]
    /\ sent[2][1] = "FAILED to apply edit to "

\* C28: the flag, once set by stop(), stays set, and every run() entered
\* after that, the first or a later one of the orchestrator, returns
\* user_cancelled with no round and no message sent.
C28_StickyCancel ==
    /\ stopped_in[1] # "" => stopped
    /\ (pc = "done" /\ stopped_at_start) =>
         /\ result.stop_reason = "user_cancelled"
         /\ result.rounds = <<>>
         /\ sent = <<>>

\* Sum of ParsedItems over the replies of the first n recorded rounds.
RECURSIVE ParsedUpTo(_)
ParsedUpTo(n) ==
    IF n = 0 THEN 0 ELSE ParsedUpTo(n - 1) + ParsedItems(result.rounds[n].response)

\* True iff the pass p reached the preview of its item (and, in confirm
\* mode, the prompt): the path passed validation and, for an instruction
\* with search text, the file was there and the text was found in it.
Previewed(p) ==
    /\ p.path # None
    /\ (p.kind = "edits" /\ ~IsCreate(p.item)) =>
          /\ IsFile(p.before, p.path)
          /\ FindSearchContent(ReadText(p.before, p.path),
                               p.item.search_content).found

\* True iff the item of the pass p was not to be written: the run is a
\* dry-run, or the user was asked and the answer was no.
Withheld(p) == dry_run \/ (p.prompted /\ ~p.answer)

\* The passes of round k and the outcomes that failed among them, in order.
PassesOf(k) == SelectSeq(passes, LAMBDA p : p.round = k)
FailedOf(k) ==
    LET failed == SelectSeq(PassesOf(k), LAMBDA p : ~p.out.success)
    IN [n \in 1..Len(failed) |-> failed[n].out]

\* Every recorded round holds the failed outcomes of its passes.
RoundsRecordFailures ==
    \A k \in 1..Len(result.rounds) : result.rounds[k].failed_edits = FailedOf(k)

\* The error messages apply_edits and _apply_search_replace report for an
\* instruction that does not reach the preview.
ReportedBeforePreview ==
    {"Path validation failed: ", "File not found: ", "SEARCH block not found in "}

\* In a dry-run run no round applies a file, every parsed instruction or
\* block is a failed outcome of its round and is counted in
\* total_failed_edits, the outcome of an instruction has an empty error
\* message exactly if the instruction was previewed, and the message of a
\* following round has one FAILED line for each outcome and ends with the
\* retry sentence.
DryRunCountsAsFailed ==
    dry_run =>
        /\ result.total_files_applied = <<>>
        /\ result.total_failed_edits = ParsedUpTo(Len(result.rounds))
        /\ \A i \in 1..Len(passes) :
             LET p == passes[i]
             IN /\ ~p.out.success
                /\ p.kind = "edits" =>
                     IF Previewed(p) THEN p.out.error_message = <<>>
                     ELSE Head(p.out.error_message) \in ReportedBeforePreview
        /\ \A k \in 1..Len(result.rounds) :
             LET rr == result.rounds[k]
                 Line(f) == <<"FAILED to apply edit to ">> \o f.file_path \o <<": ">>
                              \o f.error_message
             IN /\ rr.files_applied = <<>>
                /\ Len(rr.failed_edits) = ParsedItems(rr.response)
                /\ \A s \in SentIn(k + 1) :
                     LET m == sent[s]
                     IN /\ Cardinality(PhraseAt(m, "FAILED to apply edit to "))
                             = ParsedItems(rr.response)
                        /\ \A n \in 1..Len(rr.failed_edits) :
                             LET i == NthPhrase(m, "FAILED to apply edit to ", n)
                             IN SubSeq(m, i, i + Len(Line(rr.failed_edits[n])) + 1)
                                  = Line(rr.failed_edits[n]) \o <<LF, LF>>
                        /\ m[Len(m)] = RETRY_SENTENCE[1]

\* C29 as stated: an instruction or block that is previewed in dry-run mode
\* or declined in confirm mode gets the failed outcome with an empty error
\* message, every recorded round holds the failed outcomes of its passes,
\* and the dry-run run counts and reports them.
C29_PreviewedHasEmptyMessage ==
    /\ \A i \in 1..Len(passes) :
         LET p == passes[i]
         IN (Previewed(p) /\ Withheld(p)) =>
               p.out = ApplyResult(p.item.file_path, FALSE, <<>>, <<>>)
    /\ RoundsRecordFailures
    /\ DryRunCountsAsFailed

\* C29 as amended: an instruction of the primary protocol that is
\* previewed in dry-run mode or declined in confirm mode gets the failed
\* outcome with an empty error message; a legacy block that is previewed or
\* declined gets the failed outcome with the message "Failed to apply: "
\* followed by its path; every recorded round holds the failed outcomes of
\* its passes, and the dry-run run counts and reports them.
C29_DryRunCountsAsFailed ==
    /\ \A i \in 1..Len(passes) :
         LET p == passes[i]
             fp == p.item.file_path
         IN (Previewed(p) /\ Withheld(p)) =>
               p.out = ApplyResult(fp, FALSE,
                                   IF p.kind = "edits" THEN <<>>
                                   ELSE <<"Failed to apply: ">> \o fp,
                                   <<>>)
    /\ RoundsRecordFailures
    /\ DryRunCountsAsFailed

\* Witness of C29: a dry-run run whose first reply held two instructions
\* that match a.py; both were previewed and are failed outcomes with an
\* empty error message in the first round, and the second message has a
\* FAILED line for each and asks for a retry.
C29_Witness ==
    /\ dry_run
    /\ sent_round = <<1, 2>>
    /\ Len(result.rounds) >= 1
    /\ Len(PassesOf(1)) = 2
    /\ \A n \in 1..2 :
         /\ passes[n].kind = "edits"
         /\ ~IsCreate(passes[n].item)
         /\ Previewed(passes[n])
         /\ result.rounds[1].failed_edits[n] = passes[n].out
         /\ passes[n].out.error_message = <<>>
    /\ Len(result.rounds[1].failed_edits) = 2
    /\ result.total_failed_edits >= 2
    /\ fs = InitialFs
    /\ Cardinality(PhraseAt(sent[2], "FAILED to apply edit to ")) = 2
    /\ sent[2][Len(sent[2])] = RETRY_SENTENCE[1]

====
